---- MODULE Spec2Model ----
(***************************************************************************)
(* Secure telemetry pipeline of the C3DS ESP8266 sensor firmware.          *)
(*                                                                         *)
(* The model follows the ultrasonic device template (ESP8266_P256):        *)
(*   hardware.cpp   detection state machine and alert timer                *)
(*   messaging.cpp  heartbeat timer, payload, HTTP response taxonomy       *)
(*   crypto.cpp     SHA-256 / ECDSA / DER / base64 signer                  *)
(*   network.cpp    WiFi status and wall-clock time                        *)
(*                                                                         *)
(* Conventions                                                             *)
(*   - a time in milliseconds is a pair <<hi, lo>> of 16-bit limbs with    *)
(*     value hi * 2^16 + lo, so that no intermediate result leaves the     *)
(*     range of 32-bit signed arithmetic. millis() is the 32-bit Arduino   *)
(*     counter: the clock (milliseconds since boot) with hi taken modulo   *)
(*     2^16.                                                               *)
(*   - a float distance d cm is the integer d * 20000, which makes         *)
(*     (duration / 2.0) * 0.0343 the exact integer duration * 343.         *)
(*   - platform calls (Serial, digitalWrite, pulseIn) take no time; the    *)
(*     clock advances in delay(), in the HTTP round trip and in Tick.      *)
(***************************************************************************)
EXTENDS Integers, Sequences, FiniteSets, TLC

\* ---------------------------------------------------------------------------
\* Program constants (config.h)
\* ---------------------------------------------------------------------------
HEARTBEAT_INTERVAL == 20000
SENSOR_POLL_INTERVAL == 500
ALERT_INTERVAL == 10000
HTTP_TIMEOUT == 10000
MIN_VALID_UNIX_TIMESTAMP == 100000
NTP_MAX_SYNC_ATTEMPTS == 20
DETECTION_THRESHOLD_CM == 25
DETECTION_HYSTERESIS_CM == 2
SENSOR_MAX_DISTANCE_CM == 400
SENSOR_MIN_DISTANCE_CM == 2
CONSECUTIVE_READINGS_REQUIRED == 2
SENSOR_PULSE_TIMEOUT_MICROSECONDS == 30000
\* SPEED_OF_SOUND_CM_PER_MICROSECOND = 0.0343 = SPEED_NUM / SPEED_DEN
SPEED_NUM == 343
SPEED_DEN == 10000

\* unsigned long on the ESP8266 is 32 bits wide
\* ESP8266_C3DS_sensor/config.h (button template)
DEBOUNCE_DELAY == 50
MIN_PRESS_INTERVAL == 2000
ULONG_BITS == 32
\* an unsigned long is two limbs of ULONG_BITS / 2 bits
LIMB == 2 ^ (ULONG_BITS \div 2)

\* ---------------------------------------------------------------------------
\* Bounds of the model
\* ---------------------------------------------------------------------------
\* Each specification bounds the steps that advance the clock (Tick, delay(),
\* HTTP round trip), the pollSensor() calls and the sendHeartbeat()/sendAlert()
\* calls that reach sendHTTPRequest().
\* Spec: the whole device
MaxAdvances == 1
MaxPolls == 2
MaxSends == 1
\* SpecHw: hardware.cpp alone
HwMaxAdvances == 2
HwMaxPolls == 5
\* SpecMsg: messaging.cpp, crypto.cpp and network.cpp
MsgMaxAdvances == 2
MsgMaxSends == 1
\* SpecAlert: the alert branch of the control loop
AlertMaxAdvances == 2
AlertMaxPolls == 2
AlertMaxSends == 1
\* SpecBtn: the button of ESP8266_C3DS_sensor/hardware.cpp
BtnMaxAdvances == 5
BtnMaxCalls == 6
\* SpecBeat: messaging.cpp through two heartbeats
BeatMaxAdvances == 4
BeatMaxSends == 2
\* SpecEpisode: the whole device through one detection episode
EpisodeMaxAdvances == 1
EpisodeMaxPolls == 3
EpisodeMaxSends == 1
\* SpecCrypto: the longest input of base64Encode() called directly
MaxBase64Len == 3
\* SpecFrame: the whole device around one wrap of millis()
FrameMaxAdvances == 1
FrameMaxPolls == 2
FrameMaxSends == 1
\* SpecHttp: messaging.cpp over a wide range of results of http.POST()
HttpMaxAdvances == 1
HttpMaxSends == 1
\* SpecPress: the button through three presses
PressMaxAdvances == 9
PressMaxCalls == 10
\* SpecWrap: the three timers across a wrap of millis()
WrapMaxAdvances == 2
WrapMaxPolls == 2
\* wall-clock second at boot once NTP has synchronised
EpochAtBoot == 1700000000

\* ---------------------------------------------------------------------------
\* Fixed-point distances: 1 cm = 2 * SPEED_DEN units
\* ---------------------------------------------------------------------------
Cm(x) == x * 2 * SPEED_DEN

\* the float -1.0 returned for a failed measurement
INVALID_DISTANCE == 0 - Cm(1)

\* ---------------------------------------------------------------------------
\* Milliseconds as <<hi, lo>>
\* ---------------------------------------------------------------------------
\* the time n, for 0 <= n < 2^31
Ms(n) == <<n \div LIMB, n % LIMB>>

\* a + b, not wrapped
Plus(a, b) ==
    LET lo == a[2] + b[2]
    IN  <<a[1] + b[1] + (lo \div LIMB), lo % LIMB>>

\* a - b, not wrapped (hi is negative when a < b)
Minus(a, b) ==
    LET lo == a[2] - b[2]
        borrow == IF lo < 0 THEN 1 ELSE 0
    IN  <<a[1] - b[1] - borrow, lo + borrow * LIMB>>

\* conversion to unsigned long: modulo 2^ULONG_BITS
ULong(a) == <<a[1] % LIMB, a[2]>>

\* mutation: a difference that stops at zero instead of wrapping
USubSaturating(a, b) == IF Minus(a, b)[1] < 0 THEN Ms(0) ELSE Minus(a, b)

\* unsigned 32-bit subtraction a - b
USub(a, b) == ULong(Minus(a, b))

\* a >= n for an unsigned long a and an interval 0 <= n < 2^31
AtLeast(a, n) == a[1] > n \div LIMB \/ (a[1] = n \div LIMB /\ a[2] >= n % LIMB)

\* a / 1000 by long division, for a time a below 2^47
DivThousand(a) ==
    LET q1 == a[1] \div 1000
        r1 == a[1] % 1000
        q2 == (r1 * LIMB + a[2]) \div 1000
    IN  q1 * LIMB + q2

VARIABLES
    \* environment
    clock,                    \* milliseconds since boot, not wrapped
    wifiConnected,            \* WiFi.status() == WL_CONNECTED
    ntpSynced,                \* the SNTP client has set the system time
    \* network.cpp
    timeInitialized,
    bootTime,
    \* crypto.cpp
    cryptoReady,
    \* messaging.cpp
    lastHeartbeatTime,
    messagingReady,
    \* hardware.cpp
    lastSensorPoll,
    currentDistance,
    previousDistance,
    consecutiveValidReadings,
    detectionActive,
    firstDetectionTime,
    firstDetectionTimestamp,
    lastAlertTime,
    consecutiveOutOfRange,    \* static local of updateDetectionStateMachine
    \* ESP8266_C3DS_sensor/hardware.cpp
    lastButtonState,
    buttonState,
    lastDebounceTime,
    lastPressTime,
    \* observers
    last,                     \* the call that just returned and what it did
    trail,                    \* the last TrailLen polls, oldest first
    validTrail,               \* the last polls with a valid reading, oldest first
    heartbeatMark,            \* clock at the last write of lastHeartbeatTime, <<-1, 0>> if none
    heartbeatPost,            \* clock at the last POST of a heartbeat, <<-1, 0>> if none
    alertMark,                \* clock at the last markAlertSent() of this episode, <<-1, 0>> if none
    pollMark,                 \* clock at the last pollSensor(), <<-1, 0>> if none
    advances,
    polls,
    sends,
    button,                   \* the readings and press commits of checkButtonPress() so far
    cryptoCall,               \* the last direct call of a function of crypto.cpp
    budget                    \* the bounds of the specification being checked

envVars == <<clock, wifiConnected, ntpSynced>>
netVars == <<timeInitialized, bootTime>>
msgVars == <<lastHeartbeatTime, messagingReady>>
hwVars == <<lastSensorPoll, currentDistance, previousDistance,
            consecutiveValidReadings, detectionActive, firstDetectionTime,
            firstDetectionTimestamp, lastAlertTime, consecutiveOutOfRange>>
btnVars == <<lastButtonState, buttonState, lastDebounceTime, lastPressTime, button>>
cryVars == <<cryptoCall>>
beatVars == <<heartbeatPost>>
alertVars == <<alertMark, pollMark>>
obsVars == <<last, trail, validTrail, heartbeatMark, advances, polls, sends, budget>>
vars == <<envVars, netVars, cryptoReady, msgVars, hwVars, btnVars, cryVars, beatVars, alertVars, obsVars>>

\* millis(): the 32-bit millisecond counter
millis == ULong(clock)

\* ---------------------------------------------------------------------------
\* network.cpp
\* ---------------------------------------------------------------------------
\* time(nullptr): seconds since the epoch once synchronised, since boot before
timeNow == IF ntpSynced THEN EpochAtBoot + DivThousand(clock) ELSE DivThousand(clock)

\* the snprintf of "%04d-%02d-%02dT%02d:%02d:%02dZ" over gmtime(t); it is
\* injective in t, and the record keeps the second it renders
IsoTimestamp(t) == [iso8601 |-> t]

\* "1970-01-01T00:00:00Z"
EPOCH_PLACEHOLDER == IsoTimestamp(0)

getCurrentTimestamp == IF ~timeInitialized THEN EPOCH_PLACEHOLDER ELSE IsoTimestamp(timeNow)

isWiFiConnected == wifiConnected

isTimeInitialized == timeInitialized

\* ---------------------------------------------------------------------------
\* hardware.cpp: ultrasonic measurement and hysteresis
\* ---------------------------------------------------------------------------
\* duration is the value of pulseIn(): 0 on timeout, else the echo time in us
measureDistance(duration) ==
    IF duration = 0 THEN INVALID_DISTANCE
    ELSE LET distance == duration * SPEED_NUM
         IN  IF distance < Cm(SENSOR_MIN_DISTANCE_CM) \/ distance > Cm(SENSOR_MAX_DISTANCE_CM)
             THEN INVALID_DISTANCE
             ELSE distance

\* mutation: one threshold for both states, no hysteresis
isDistanceInDetectionRangeNoHysteresis(active, distance) ==
    distance <= Cm(DETECTION_THRESHOLD_CM)

isDistanceInDetectionRange(active, distance) ==
    IF active
    THEN distance <= Cm(DETECTION_THRESHOLD_CM + DETECTION_HYSTERESIS_CM)
    ELSE distance <= Cm(DETECTION_THRESHOLD_CM)

isSensorPollDue == AtLeast(USub(millis, lastSensorPoll), SENSOR_POLL_INTERVAL)

isObjectDetected == detectionActive

\* mutation: due one millisecond before the interval has passed
isAlertDueEarly ==
    IF ~detectionActive THEN FALSE
    ELSE LET timeSinceLastAlert == USub(millis, lastAlertTime)
         IN  AtLeast(timeSinceLastAlert, ALERT_INTERVAL - 1)

\* mutation: the elapsed time alone decides, the detection state is not read
isAlertDueInAnyState == AtLeast(USub(millis, lastAlertTime), ALERT_INTERVAL)

isAlertDue ==
    IF ~detectionActive THEN FALSE
    ELSE LET timeSinceLastAlert == USub(millis, lastAlertTime)
         IN  AtLeast(timeSinceLastAlert, ALERT_INTERVAL)

getDetectedDistance == IF ~detectionActive THEN 0 ELSE currentDistance

getDetectionDuration ==
    IF ~detectionActive THEN 0 ELSE DivThousand(USub(millis, firstDetectionTime))

getFirstDetectionTimestamp == firstDetectionTimestamp

\* the statics of hardware.cpp that the state machine reads and writes
HwState ==
    [ detectionActive          |-> detectionActive,
      firstDetectionTime       |-> firstDetectionTime,
      firstDetectionTimestamp  |-> firstDetectionTimestamp,
      lastAlertTime            |-> lastAlertTime,
      consecutiveValidReadings |-> consecutiveValidReadings,
      consecutiveOutOfRange    |-> consecutiveOutOfRange,
      transition               |-> "none" ]

\* mutation: the in-range counter is not cleared on entering Detecting
transitionToDetectingKeepsCount(s) ==
    [ s EXCEPT !.detectionActive = TRUE,
               !.firstDetectionTime = millis,
               !.firstDetectionTimestamp = getCurrentTimestamp,
               !.lastAlertTime = Ms(0),
               !.transition = "toDetecting" ]

transitionToDetecting(s) ==
    [ s EXCEPT !.detectionActive = TRUE,
               !.firstDetectionTime = millis,
               !.firstDetectionTimestamp = getCurrentTimestamp,
               !.lastAlertTime = Ms(0),
               !.consecutiveValidReadings = 0,
               !.transition = "toDetecting" ]

transitionToIdle(s) ==
    [ s EXCEPT !.detectionActive = FALSE,
               !.transition = "toIdle" ]

\* mutation: Detecting is entered one reading late (> for >=)
updateDetectionStateMachineLate(s, readingInRange) ==
    IF ~s.detectionActive /\ s.consecutiveValidReadings > CONSECUTIVE_READINGS_REQUIRED
    THEN transitionToDetecting(s)
    ELSE IF s.detectionActive /\ ~readingInRange /\ s.consecutiveValidReadings = 0
    THEN LET counted == [s EXCEPT !.consecutiveOutOfRange = @ + 1]
         IN  IF counted.consecutiveOutOfRange >= CONSECUTIVE_READINGS_REQUIRED
             THEN [transitionToIdle(counted) EXCEPT !.consecutiveOutOfRange = 0]
             ELSE counted
    ELSE [s EXCEPT !.consecutiveOutOfRange = 0]

\* mutation: a reading in range does not clear the count of readings out of range
updateDetectionStateMachineSticky(s, readingInRange) ==
    IF ~s.detectionActive /\ s.consecutiveValidReadings >= CONSECUTIVE_READINGS_REQUIRED
    THEN transitionToDetecting(s)
    ELSE IF s.detectionActive /\ ~readingInRange /\ s.consecutiveValidReadings = 0
    THEN LET counted == [s EXCEPT !.consecutiveOutOfRange = @ + 1]
         IN  IF counted.consecutiveOutOfRange >= CONSECUTIVE_READINGS_REQUIRED
             THEN [transitionToIdle(counted) EXCEPT !.consecutiveOutOfRange = 0]
             ELSE counted
    ELSE s

updateDetectionStateMachine(s, readingInRange) ==
    IF ~s.detectionActive /\ s.consecutiveValidReadings >= CONSECUTIVE_READINGS_REQUIRED
    THEN transitionToDetecting(s)
    ELSE IF s.detectionActive /\ ~readingInRange /\ s.consecutiveValidReadings = 0
    THEN LET counted == [s EXCEPT !.consecutiveOutOfRange = @ + 1]
         IN  IF counted.consecutiveOutOfRange >= CONSECUTIVE_READINGS_REQUIRED
             THEN [transitionToIdle(counted) EXCEPT !.consecutiveOutOfRange = 0]
             ELSE counted
    ELSE [s EXCEPT !.consecutiveOutOfRange = 0]

\* mutation: an out-of-range reading leaves the in-range counter as it is
countReadingWithoutReset(s, readingInRange) ==
    IF readingInRange
    THEN [s EXCEPT !.consecutiveValidReadings = @ + 1]
    ELSE s

\* mutation: a reading in range during an episode restarts its clock
countReadingRestartsEpisode(s, readingInRange) ==
    IF readingInRange
    THEN [s EXCEPT !.consecutiveValidReadings = @ + 1,
                   !.firstDetectionTime = IF s.detectionActive THEN millis ELSE @]
    ELSE [s EXCEPT !.consecutiveValidReadings = 0]

\* the counter update of pollSensor() for a valid reading
countReading(s, readingInRange) ==
    IF readingInRange
    THEN [s EXCEPT !.consecutiveValidReadings = @ + 1]
    ELSE [s EXCEPT !.consecutiveValidReadings = 0]

\* mutation: an invalid reading also clears the exit counter
invalidReadingClearsExit(s) ==
    [s EXCEPT !.consecutiveValidReadings = 0, !.consecutiveOutOfRange = 0]

\* mutation: an invalid reading is handled like a valid out-of-range one
invalidReadingAsOutOfRange(s) ==
    updateDetectionStateMachine(countReading(s, FALSE), FALSE)

\* the branch of pollSensor() for an invalid reading
invalidReading(s) == [s EXCEPT !.consecutiveValidReadings = 0]

\* ---------------------------------------------------------------------------
\* crypto.cpp: DER and base64
\* ---------------------------------------------------------------------------
\* bytes are 0..255; a String is the sequence of its characters
base64_chars ==
    << "A", "B", "C", "D", "E", "F", "G", "H", "I", "J", "K", "L", "M",
       "N", "O", "P", "Q", "R", "S", "T", "U", "V", "W", "X", "Y", "Z",
       "a", "b", "c", "d", "e", "f", "g", "h", "i", "j", "k", "l", "m",
       "n", "o", "p", "q", "r", "s", "t", "u", "v", "w", "x", "y", "z",
       "0", "1", "2", "3", "4", "5", "6", "7", "8", "9", "+", "/" >>

\* base64_chars[i] of the C array, whose first index is 0
Base64Char(i) == base64_chars[i + 1]

\* mutation: the second group takes the high bits of the first byte
CharArray4Misaligned(a) ==
    << a[1] \div 4,
       (a[1] \div 64) * 16 + (a[2] \div 16),
       (a[2] % 16) * 4 + (a[3] \div 64),
       a[3] % 64 >>

\* char_array_4[0..3] computed from char_array_3[0..2]
CharArray4(a) ==
    << a[1] \div 4,
       (a[1] % 4) * 16 + (a[2] \div 16),
       (a[2] % 16) * 4 + (a[3] \div 64),
       a[3] % 64 >>

\* mutation: the tail is padded with one character less
Base64TailShortPadding(rest) ==
    LET i == Len(rest)
        a == [j \in 1..3 |-> IF j <= i THEN rest[j] ELSE 0]
        c == CharArray4(a)
    IN  [j \in 1..(i + 1) |-> Base64Char(c[j])] \o [j \in 1..(2 - i) |-> "="]

\* the tail of base64Encode(): i in 1..2 bytes are left in char_array_3
Base64Tail(rest) ==
    LET i == Len(rest)
        a == [j \in 1..3 |-> IF j <= i THEN rest[j] ELSE 0]
        c == CharArray4(a)
    IN  [j \in 1..(i + 1) |-> Base64Char(c[j])] \o [j \in 1..(3 - i) |-> "="]

RECURSIVE base64Encode(_)
base64Encode(data) ==
    IF Len(data) >= 3
    THEN LET c == CharArray4(SubSeq(data, 1, 3))
         IN  [j \in 1..4 |-> Base64Char(c[j])] \o base64Encode(SubSeq(data, 4, Len(data)))
    ELSE IF Len(data) = 0 THEN <<>>
    ELSE Base64Tail(data)

\* while (start < 31 && x[start] == 0) start++;  x is a 32-byte integer
RECURSIVE SkipLeadingZeros(_, _)
SkipLeadingZeros(x, start) ==
    IF start < 31 /\ x[start + 1] = 0 THEN SkipLeadingZeros(x, start + 1) ELSE start

\* mutation: the pad byte is written whatever the high bit
DerIntegerAlwaysPadded(x) ==
    LET start == SkipLeadingZeros(x, 0)
        len   == (32 - start) + 1
    IN  <<2, len>> \o <<0>> \o SubSeq(x, start + 1, 32)

\* one INTEGER of the signature: tag, length, optional pad, value bytes
DerInteger(x) ==
    LET start == SkipLeadingZeros(x, 0)
        pad   == x[start + 1] >= 128
        len   == (32 - start) + (IF pad THEN 1 ELSE 0)
    IN  <<2, len>> \o (IF pad THEN <<0>> ELSE <<>>) \o SubSeq(x, start + 1, 32)

\* mutation: the SEQUENCE length counts its own header
encodeSignatureToDERWholeLength(raw_sig) ==
    LET r_enc == DerInteger(SubSeq(raw_sig, 1, 32))
        s_enc == DerInteger(SubSeq(raw_sig, 33, 64))
    IN  <<48, Len(r_enc) + Len(s_enc) + 2>> \o r_enc \o s_enc

encodeSignatureToDER(raw_sig) ==
    LET r == SubSeq(raw_sig, 1, 32)
        s == SubSeq(raw_sig, 33, 64)
        r_enc == DerInteger(r)
        s_enc == DerInteger(s)
        inner_len == Len(r_enc) + Len(s_enc)
    IN  <<48, inner_len>> \o r_enc \o s_enc

\* 32-byte big-endian integers: first byte, second byte, then 0x01 bytes
Int256(b1, b2) == <<b1, b2>> \o [i \in 1..30 |-> 1]

\* raw signatures r || s that uECC_sign() may produce
RawSignatures ==
    { Int256(1, 1) \o Int256(1, 1),
      Int256(128, 1) \o Int256(255, 1),
      Int256(0, 129) \o Int256(0, 1) }

SignOutcomes == {[result |-> 0, signature |-> <<>>]}
                \cup {[result |-> 1, signature |-> sig] : sig \in RawSignatures}

\* steps 3 and 4 of signMessage() for each raw signature
EncodedSignature ==
    [sig \in RawSignatures |-> base64Encode(encodeSignatureToDER(sig))]

\* br_sha256 over the exact bytes of the message
sha256(message) == [sha256 |-> message]

\* mutation: signing goes on without the module being initialised
signMessageUnguarded(message, sign) ==
    LET hash == sha256(message)
    IN  IF sign.result = 0 THEN <<>>
        ELSE EncodedSignature[sign.signature]

\* signMessage() gets as far as uECC_sign()
signReachesPrimitive == cryptoReady

\* signMessage(message); sign is what uECC_sign() does with the hash:
\* [result |-> 0] on failure, [result |-> 1, signature |-> 64 bytes] otherwise
signMessage(message, sign) ==
    IF ~cryptoReady THEN <<>>
    ELSE LET hash == sha256(message)
         IN  IF sign.result = 0 THEN <<>>
             ELSE EncodedSignature[sign.signature]

isCryptoReady == cryptoReady

\* ---------------------------------------------------------------------------
\* Inputs
\* ---------------------------------------------------------------------------
\* echo times in microseconds: timeout, 1.7 cm (too close), 24.0 cm, 26.0 cm,
\* 30.0 cm and 401.3 cm (too far)
Durations == {0, 100, 1400, 1516, 1750, 23400}

\* SpecAlert: a timeout, a reading in range and one out of range
AlertDurations == {0, 1400, 1750}

\* a reading in range and one out of range
FrameDurations == {1400, 1750}

\* SpecAlert: a transport error, a success, a client and a server error
AlertHttpCodes == {-1, 200, 401, 500}

\* elapsed times of Tick: one millisecond, one millisecond less than an
\* interval, and a jump that takes millis() to within one interval of 2^32
WrapJump(interval) == Minus(<<LIMB, 0>>, Ms(interval))

HwDeltas == {Ms(1), Ms(SENSOR_POLL_INTERVAL - 1), Ms(ALERT_INTERVAL - 1),
             WrapJump(ALERT_INTERVAL)}

MsgDeltas == {Ms(1), Ms(HEARTBEAT_INTERVAL - 1), WrapJump(HEARTBEAT_INTERVAL)}

AlertDeltas == {Ms(ALERT_INTERVAL), WrapJump(ALERT_INTERVAL)}

Deltas == HwDeltas \cup MsgDeltas

\* results of http.POST(): transport errors, 0, and status codes
HttpCodes == {-11, -5, -4, -3, -2, -1, 0, 200, 201, 204, 301, 400, 401, 403, 404, 500}

\* duration of the HTTP round trip in milliseconds
RoundTrips == {0, HTTP_TIMEOUT}

\* WiFi.RSSI() and ESP.getFreeHeap()
RssiValues == {-60}

HeapValues == {40000}

\* ---------------------------------------------------------------------------
\* network.cpp
\* ---------------------------------------------------------------------------
getWiFiRSSI(rssi) == IF ~isWiFiConnected THEN -100 ELSE rssi

getUptimeSeconds == IF ~timeInitialized THEN DivThousand(millis) ELSE timeNow - bootTime

\* ---------------------------------------------------------------------------
\* hardware.cpp: status LED patterns
\* ---------------------------------------------------------------------------
\* the delay() calls of blinkStatusLED(times, duration_ms)
blinkStatusLED(times, duration_ms) ==
    IF times <= 0 THEN 0 ELSE times * duration_ms + (times - 1) * duration_ms

\* a pattern is what it shows and the milliseconds it blocks for
showSuccessPattern ==
    [blinks |-> 1, each |-> 1000, elapsed |-> blinkStatusLED(1, 1000)]

showErrorPattern(errorCode) ==
    [blinks |-> errorCode, each |-> 200, elapsed |-> blinkStatusLED(errorCode, 200) + 500]

\* ---------------------------------------------------------------------------
\* messaging.cpp
\* ---------------------------------------------------------------------------
DEVICE_ID == "your_device_id-dynamically_generated"

DEVICE_CERTIFICATE_B64 == "your_certificate - dynamically_generated"

\* the serialized JSON document: the members in insertion order
createMessagePayload(type, distance, durationSeconds, firstDetectedTimestamp, rssi, heap) ==
    LET common == << <<"device_id", DEVICE_ID>>, <<"timestamp", getCurrentTimestamp>> >>
    IN  IF type = "HEARTBEAT"
        THEN common \o << <<"message_type", "heartbeat">>,
                          <<"data", << <<"status", "online">>,
                                       <<"uptime", getUptimeSeconds>>,
                                       <<"wifi_rssi", getWiFiRSSI(rssi)>>,
                                       <<"free_memory", heap>> >> >> >>
        ELSE common \o << <<"message_type", "alert">>,
                          <<"data", << <<"event", "ultrasonic_detection">>,
                                       <<"sensor_type", "HC-SR04">>,
                                       <<"detected_distance_cm", distance>>,
                                       <<"detection_duration_seconds", durationSeconds>>,
                                       <<"first_detected_at", firstDetectedTimestamp>>,
                                       <<"confidence", 1>> >> >> >>

\* result of a response handler: return value and the patterns it showed
handleHTTPSuccess(httpCode) ==
    IF httpCode = 200 \/ httpCode = 201
    THEN [success |-> TRUE, patterns |-> <<showSuccessPattern>>, diag |-> "SUCCESS"]
    ELSE [success |-> FALSE, patterns |-> <<>>, diag |-> ""]

\* mutation: 401 and 403 are not told apart from the other client errors
handleHTTPClientErrorFlat(httpCode) ==
    IF httpCode = 400
    THEN [success |-> FALSE, patterns |-> <<showErrorPattern(3)>>, diag |-> "BAD REQUEST (400)"]
    ELSE [success |-> FALSE, patterns |-> <<showErrorPattern(6)>>, diag |-> "CLIENT ERROR"]

handleHTTPClientError(httpCode) ==
    IF httpCode = 400
    THEN [success |-> FALSE, patterns |-> <<showErrorPattern(3)>>, diag |-> "BAD REQUEST (400)"]
    ELSE IF httpCode = 401 \/ httpCode = 403
    THEN [success |-> FALSE, patterns |-> <<showErrorPattern(4)>>,
          diag |-> "AUTHENTICATION FAILED (401/403)"]
    ELSE [success |-> FALSE, patterns |-> <<showErrorPattern(6)>>, diag |-> "CLIENT ERROR"]

handleHTTPServerError(httpCode) ==
    [success |-> FALSE, patterns |-> <<showErrorPattern(5)>>, diag |-> "SERVER ERROR (5xx)"]

\* mutation: the switch over the error code is dropped
handleNetworkErrorUnnamed(errorCode) ==
    [success |-> FALSE, patterns |-> <<showErrorPattern(10)>>, diag |-> "Unknown error"]

handleNetworkError(errorCode) ==
    [ success  |-> FALSE,
      patterns |-> <<showErrorPattern(10)>>,
      diag     |-> CASE errorCode = -1  -> "Connection failed - Cannot reach server"
                     [] errorCode = -2  -> "Send header failed"
                     [] errorCode = -3  -> "Send payload failed"
                     [] errorCode = -4  -> "Not connected"
                     [] errorCode = -5  -> "Connection lost"
                     [] errorCode = -11 -> "Read timeout"
                     [] OTHER           -> "Unknown error" ]

\* mutation: the client-error range has no upper end (>= 400 alone)
classifyResponseOpenClientRange(httpResponseCode) ==
    IF httpResponseCode > 0
    THEN IF httpResponseCode >= 200 /\ httpResponseCode < 300
         THEN handleHTTPSuccess(httpResponseCode)
         ELSE IF httpResponseCode >= 400
         THEN handleHTTPClientError(httpResponseCode)
         ELSE [success |-> FALSE, patterns |-> <<showErrorPattern(6)>>,
               diag |-> "UNEXPECTED RESPONSE"]
    ELSE handleNetworkError(httpResponseCode)

\* the response taxonomy of sendHTTPRequest()
classifyResponse(httpResponseCode) ==
    IF httpResponseCode > 0
    THEN IF httpResponseCode >= 200 /\ httpResponseCode < 300
         THEN handleHTTPSuccess(httpResponseCode)
         ELSE IF httpResponseCode >= 400 /\ httpResponseCode < 500
         THEN handleHTTPClientError(httpResponseCode)
         ELSE IF httpResponseCode >= 500
         THEN handleHTTPServerError(httpResponseCode)
         ELSE [success |-> FALSE, patterns |-> <<showErrorPattern(6)>>,
               diag |-> "UNEXPECTED RESPONSE"]
    ELSE handleNetworkError(httpResponseCode)

\* no request was made
NoRequest ==
    [ success |-> FALSE, posts |-> <<>>, patterns |-> <<>>, diag |-> "",
      code |-> 0, elapsed |-> 0 ]

\* mutation: a failed POST is issued a second time
sendHTTPRequestRetrying(payload, signature, http) ==
    IF ~http.begin
    THEN [NoRequest EXCEPT !.diag = "Failed to begin HTTP connection"]
    ELSE LET post == [ body |-> payload,
                       contentType |-> "application/json",
                       certificate |-> DEVICE_CERTIFICATE_B64,
                       signature |-> signature,
                       at |-> clock ]
             r == classifyResponse(http.code)
         IN  [ success  |-> r.success,
               posts    |-> IF r.success THEN <<post>> ELSE <<post, post>>,
               patterns |-> r.patterns,
               diag     |-> r.diag,
               code     |-> http.code,
               elapsed  |-> http.rtt
                            + (IF Len(r.patterns) = 0 THEN 0 ELSE r.patterns[1].elapsed) ]

\* mutation: the document is serialized again for the body
sendHTTPRequestReserialized(payload, signature, http) ==
    IF ~http.begin
    THEN [NoRequest EXCEPT !.diag = "Failed to begin HTTP connection"]
    ELSE LET post == [ body |-> payload \o << <<"timestamp", getCurrentTimestamp>> >>,
                       contentType |-> "application/json",
                       certificate |-> DEVICE_CERTIFICATE_B64,
                       signature |-> signature,
                       at |-> clock ]
             r == classifyResponse(http.code)
         IN  [ success  |-> r.success,
               posts    |-> <<post>>,
               patterns |-> r.patterns,
               diag     |-> r.diag,
               code     |-> http.code,
               elapsed  |-> http.rtt
                            + (IF Len(r.patterns) = 0 THEN 0 ELSE r.patterns[1].elapsed) ]

\* http describes the collaborator: begin (result of http.begin()), code (result
\* of http.POST()) and rtt (how long the POST blocks)
sendHTTPRequest(payload, signature, http) ==
    IF ~http.begin
    THEN [NoRequest EXCEPT !.diag = "Failed to begin HTTP connection"]
    ELSE LET post == [ body |-> payload,
                       contentType |-> "application/json",
                       certificate |-> DEVICE_CERTIFICATE_B64,
                       signature |-> signature,
                       at |-> clock ]
             r == classifyResponse(http.code)
         IN  [ success  |-> r.success,
               posts    |-> <<post>>,
               patterns |-> r.patterns,
               diag     |-> r.diag,
               code     |-> http.code,
               elapsed  |-> http.rtt
                            + (IF Len(r.patterns) = 0 THEN 0 ELSE r.patterns[1].elapsed) ]

\* what the collaborator may answer to one request
HttpOutcomes ==
    {[begin |-> FALSE, code |-> 0, rtt |-> 0]}
    \cup {[begin |-> TRUE, code |-> c, rtt |-> t] : c \in budget.codes, t \in budget.rtts}

\* mutation: due only after more than the interval (> for >=)
isHeartbeatDueLate == AtLeast(USub(millis, lastHeartbeatTime), HEARTBEAT_INTERVAL + 1)

\* mutation: the result of signMessage() is not tested
signatureNeverMissing(signature) == FALSE

\* signature.length() == 0 in sendHeartbeat() and sendAlert()
signatureMissing(signature) == Len(signature) = 0

isHeartbeatDue == AtLeast(USub(millis, lastHeartbeatTime), HEARTBEAT_INTERVAL)

getLastHeartbeatTime == lastHeartbeatTime

\* mutation: the timer is marked only when the server accepted the heartbeat
heartbeatTimeOnSuccess(success, now) == IF success THEN now ELSE lastHeartbeatTime

\* "Always update lastHeartbeatTime to prevent rapid retries on failure":
\* the value written after sendHTTPRequest() has returned at millis() = now
heartbeatTimeAfterSend(success, now) == now

\* ---------------------------------------------------------------------------
\* Observers
\* ---------------------------------------------------------------------------
\* the record of a call: which function returned, its return value, the branch
\* it took, what it signed and sent, and for pollSensor() what it measured
Call(op, ret, path) ==
    [ op |-> op, ret |-> ret, path |-> path,
      signedMessage |-> <<>>, signature |-> <<>>, request |-> NoRequest,
      duration |-> 0, distance |-> 0, wasActive |-> detectionActive,
      transition |-> "none" ]

\* trail keeps one poll more than a transition needs, validTrail as many
TrailLen == CONSECUTIVE_READINGS_REQUIRED + 1

Remember(t, entry, n) ==
    LET u == Append(t, entry)
    IN  IF Len(u) > n THEN SubSeq(u, Len(u) - n + 1, Len(u)) ELSE u

\* the clock moves by elapsed milliseconds inside the current step
Advance(elapsed) ==
    /\ elapsed = Ms(0) \/ advances < budget.advances
    /\ clock' = Plus(clock, elapsed)
    /\ advances' = IF elapsed = Ms(0) THEN advances ELSE advances + 1

\* what checkButtonPress() has seen: the number of calls, the reading of the last
\* call and the clock of the call that first saw it (the pin is pulled up, so
\* HIGH since boot), and for the last two press commits (buttonState set to
\* LOW) their clocks and return values, <<-1, 0>> while there is none, and the
\* clock of the last press that returned true
NoButtonCall ==
    [ calls |-> 0, reading |-> "HIGH", changedAt |-> Ms(0), presses |-> 0,
      pressAt |-> <<-1, 0>>, pressRet |-> FALSE,
      prevPressAt |-> <<-1, 0>>, prevPressRet |-> FALSE,
      acceptedAt |-> <<-1, 0>> ]

\* no function of crypto.cpp has been called directly
NoCryptoCall ==
    [ op |-> "none", data |-> <<>>, out |-> <<>>, ready |-> FALSE,
      invoked |-> FALSE, result |-> 0 ]

\* ---------------------------------------------------------------------------
\* Initial state: the static initialisers
\* ---------------------------------------------------------------------------
InitWith(b) ==
    /\ budget = b
    /\ clock = Ms(0)
    /\ wifiConnected = FALSE
    /\ ntpSynced = FALSE
    /\ timeInitialized = FALSE
    /\ bootTime = 0
    /\ cryptoReady = FALSE
    /\ lastHeartbeatTime = Ms(0)
    /\ messagingReady = FALSE
    /\ lastSensorPoll = Ms(0)
    /\ currentDistance = 0
    /\ previousDistance = 0
    /\ consecutiveValidReadings = 0
    /\ detectionActive = FALSE
    /\ firstDetectionTime = Ms(0)
    /\ firstDetectionTimestamp = <<>>
    /\ lastAlertTime = Ms(0)
    /\ consecutiveOutOfRange = 0
    /\ lastButtonState = "HIGH"
    /\ buttonState = "HIGH"
    /\ lastDebounceTime = Ms(0)
    /\ lastPressTime = Ms(0)
    /\ button = NoButtonCall
    /\ cryptoCall = NoCryptoCall
    /\ last = Call("boot", FALSE, "")
    /\ trail = <<>>
    /\ validTrail = <<>>
    /\ heartbeatMark = <<-1, 0>>
    /\ heartbeatPost = <<-1, 0>>
    /\ alertMark = <<-1, 0>>
    /\ pollMark = <<-1, 0>>
    /\ advances = 0
    /\ polls = 0
    /\ sends = 0

Init ==
    InitWith([advances |-> MaxAdvances, polls |-> MaxPolls, sends |-> MaxSends,
              deltas |-> Deltas, durations |-> Durations, codes |-> HttpCodes,
              rtts |-> RoundTrips])

\* ---------------------------------------------------------------------------
\* Environment
\* ---------------------------------------------------------------------------
\* time passes between two calls
Tick ==
    /\ UNCHANGED <<budget, btnVars, cryVars, beatVars, alertVars>>
    /\ \E d \in budget.deltas :
           /\ Advance(d)
           /\ last' = Call("tick", FALSE, "")
           /\ UNCHANGED <<wifiConnected, ntpSynced, netVars, cryptoReady, msgVars, hwVars,
                          trail, validTrail, heartbeatMark, polls, sends>>

\* the access point appears or disappears
WiFiChange ==
    /\ UNCHANGED <<budget, btnVars, cryVars, beatVars, alertVars>>
    /\ wifiConnected' = ~wifiConnected
    /\ last' = Call("wifi", FALSE, "")
    /\ UNCHANGED <<clock, ntpSynced, netVars, cryptoReady, msgVars, hwVars,
                   trail, validTrail, heartbeatMark, advances, polls, sends>>

\* ---------------------------------------------------------------------------
\* Set-up calls
\* ---------------------------------------------------------------------------
\* uECC_secp256r1() returns the curve and sizeof(ECDSA_PRIVATE_KEY) is 32
initializeCrypto ==
    /\ UNCHANGED <<budget, btnVars, cryVars, beatVars, alertVars>>
    /\ cryptoReady' = TRUE
    /\ last' = Call("initializeCrypto", TRUE, "ready")
    /\ UNCHANGED <<envVars, netVars, msgVars, hwVars, trail, validTrail, heartbeatMark,
                   advances, polls, sends>>

\* synced: the SNTP answer arrives before the first test of time(nullptr)
initializeNTP ==
    /\ UNCHANGED <<budget, btnVars, cryVars, beatVars, alertVars>>
    /\ IF ~isWiFiConnected
       THEN /\ last' = Call("initializeNTP", FALSE, "WiFi not connected")
            /\ UNCHANGED <<envVars, netVars, cryptoReady, msgVars, hwVars, trail, validTrail,
                           heartbeatMark, advances, polls, sends>>
       ELSE \E synced \in BOOLEAN :
           LET valid    == timeNow >= MIN_VALID_UNIX_TIMESTAMP \/ synced
               attempts == IF valid THEN 0 ELSE NTP_MAX_SYNC_ATTEMPTS
           IN  /\ Advance(Ms(attempts * 500))
               /\ ntpSynced' = (ntpSynced \/ synced)
               /\ IF attempts >= NTP_MAX_SYNC_ATTEMPTS
                  THEN /\ timeInitialized' = FALSE
                       /\ UNCHANGED bootTime
                       /\ last' = Call("initializeNTP", FALSE, "timeout")
                  ELSE /\ timeInitialized' = TRUE
                       /\ bootTime' = IF ntpSynced' THEN EpochAtBoot + DivThousand(clock')
                                                    ELSE DivThousand(clock')
                       /\ last' = Call("initializeNTP", TRUE, "synchronized")
               /\ UNCHANGED <<wifiConnected, cryptoReady, msgVars, hwVars, trail, validTrail,
                              heartbeatMark, polls, sends>>

\* mutation: the module is declared ready without the test of the time
initializeMessagingWithoutTime ==
    /\ UNCHANGED <<budget, btnVars, cryVars, beatVars, alertVars>>
    /\ IF ~isCryptoReady
       THEN /\ messagingReady' = FALSE
            /\ last' = Call("initializeMessaging", FALSE, "Crypto not ready")
            /\ UNCHANGED <<envVars, netVars, cryptoReady, lastHeartbeatTime, hwVars, trail, validTrail,
                           heartbeatMark, advances, polls, sends>>
       ELSE /\ messagingReady' = TRUE
            /\ lastHeartbeatTime' = millis
            /\ heartbeatMark' = clock
            /\ last' = Call("initializeMessaging", TRUE, "ready")
            /\ UNCHANGED <<envVars, netVars, cryptoReady, hwVars, trail, validTrail,
                           advances, polls, sends>>

initializeMessaging ==
    /\ UNCHANGED <<budget, btnVars, cryVars, beatVars, alertVars>>
    /\ IF ~isCryptoReady
       THEN /\ messagingReady' = FALSE
            /\ last' = Call("initializeMessaging", FALSE, "Crypto not ready")
            /\ UNCHANGED <<envVars, netVars, cryptoReady, lastHeartbeatTime, hwVars, trail, validTrail,
                           heartbeatMark, advances, polls, sends>>
       ELSE IF ~isTimeInitialized
       THEN /\ messagingReady' = FALSE
            /\ last' = Call("initializeMessaging", FALSE, "Time not synchronized")
            /\ UNCHANGED <<envVars, netVars, cryptoReady, lastHeartbeatTime, hwVars, trail, validTrail,
                           heartbeatMark, advances, polls, sends>>
       ELSE /\ messagingReady' = TRUE
            /\ lastHeartbeatTime' = millis
            /\ heartbeatMark' = clock
            /\ last' = Call("initializeMessaging", TRUE, "ready")
            /\ UNCHANGED <<envVars, netVars, cryptoReady, hwVars, trail, validTrail,
                           advances, polls, sends>>

\* ---------------------------------------------------------------------------
\* messaging.cpp: sendHeartbeat() and sendAlert()
\* ---------------------------------------------------------------------------
sendHeartbeat ==
    /\ UNCHANGED <<budget, btnVars, cryVars, alertVars>>
    /\ IF ~messagingReady
       THEN /\ last' = Call("sendHeartbeat", FALSE, "Messaging not initialized")
            /\ UNCHANGED <<envVars, netVars, cryptoReady, msgVars, hwVars, trail, validTrail,
                           heartbeatMark, heartbeatPost, advances, polls, sends>>
       ELSE IF ~isWiFiConnected
       THEN /\ last' = Call("sendHeartbeat", FALSE, "WiFi not connected")
            /\ UNCHANGED <<envVars, netVars, cryptoReady, msgVars, hwVars, trail, validTrail,
                           heartbeatMark, heartbeatPost, advances, polls, sends>>
       ELSE \E sign \in SignOutcomes, rssi \in RssiValues, heap \in HeapValues :
           LET payload   == createMessagePayload("HEARTBEAT", 0, 0, <<>>, rssi, heap)
               signature == signMessage(payload, sign)
           IN  IF signatureMissing(signature)
               THEN /\ last' = [Call("sendHeartbeat", FALSE, "Failed to sign message")
                                   EXCEPT !.signedMessage = payload]
                    /\ UNCHANGED <<envVars, netVars, cryptoReady, msgVars, hwVars, trail, validTrail,
                                   heartbeatMark, heartbeatPost, advances, polls, sends>>
               ELSE \E http \in HttpOutcomes :
                   LET r == sendHTTPRequest(payload, signature, http)
                   IN  /\ sends < budget.sends
                       /\ sends' = sends + 1
                       /\ Advance(Ms(r.elapsed))
                       /\ lastHeartbeatTime' =
                              heartbeatTimeAfterSend(r.success, ULong(clock'))
                       /\ heartbeatMark' =
                              IF lastHeartbeatTime' = ULong(clock')
                              THEN clock' ELSE heartbeatMark
                       /\ heartbeatPost' = IF Len(r.posts) > 0 THEN clock ELSE heartbeatPost
                       /\ last' = [Call("sendHeartbeat", r.success, "sent")
                                      EXCEPT !.signedMessage = payload,
                                             !.signature = signature,
                                             !.request = r]
                       /\ UNCHANGED <<wifiConnected, ntpSynced, netVars, cryptoReady,
                                      messagingReady, hwVars, trail, validTrail, polls>>

\* the caller passes getDetectedDistance(), getDetectionDuration() and
\* getFirstDetectionTimestamp(); the statics of hardware.cpp, which
\* messaging.cpp cannot write, are left to the caller
sendAlertThen ==
    /\ UNCHANGED <<budget, btnVars, cryVars, beatVars>>
    /\ IF ~messagingReady
       THEN /\ last' = Call("sendAlert", FALSE, "Messaging not initialized")
            /\ UNCHANGED <<envVars, netVars, cryptoReady, msgVars, trail, validTrail,
                           heartbeatMark, advances, polls, sends>>
       ELSE IF ~isWiFiConnected
       THEN /\ last' = Call("sendAlert", FALSE, "WiFi not connected")
            /\ UNCHANGED <<envVars, netVars, cryptoReady, msgVars, trail, validTrail,
                           heartbeatMark, advances, polls, sends>>
       ELSE \E sign \in SignOutcomes, rssi \in RssiValues, heap \in HeapValues :
           LET payload   == createMessagePayload("ALERT", getDetectedDistance,
                                getDetectionDuration, getFirstDetectionTimestamp, rssi, heap)
               signature == signMessage(payload, sign)
           IN  IF signatureMissing(signature)
               THEN /\ last' = [Call("sendAlert", FALSE, "Failed to sign message")
                                   EXCEPT !.signedMessage = payload]
                    /\ UNCHANGED <<envVars, netVars, cryptoReady, msgVars, trail, validTrail,
                                   heartbeatMark, advances, polls, sends>>
               ELSE \E http \in HttpOutcomes :
                   LET r == sendHTTPRequest(payload, signature, http)
                   IN  /\ sends < budget.sends
                       /\ sends' = sends + 1
                       /\ Advance(Ms(r.elapsed))
                       /\ last' = [Call("sendAlert", r.success, "sent")
                                      EXCEPT !.signedMessage = payload,
                                             !.signature = signature,
                                             !.request = r]
                       /\ UNCHANGED <<wifiConnected, ntpSynced, netVars, cryptoReady,
                                      msgVars, trail, validTrail, heartbeatMark, polls>>

\* sendAlert() on its own writes no static of hardware.cpp
hardwareUntouched(success) == UNCHANGED <<hwVars, alertVars>>

sendAlert ==
    /\ sendAlertThen
    /\ hardwareUntouched(last'.ret)

\* ---------------------------------------------------------------------------
\* hardware.cpp: pollSensor() and markAlertSent()
\* ---------------------------------------------------------------------------
\* the statics after pollSensor() has handled the measured distance
pollResult(s, distance) ==
    IF distance < 0
    THEN invalidReading(s)
    ELSE LET readingInRange == isDistanceInDetectionRange(s.detectionActive, distance)
         IN  updateDetectionStateMachine(countReading(s, readingInRange), readingInRange)

pollSensor ==
    /\ UNCHANGED <<budget, btnVars, cryVars, beatVars>>
    /\ \E duration \in budget.durations :
           LET distance == measureDistance(duration)
               s        == pollResult(HwState, distance)
           IN  /\ polls < budget.polls
               /\ polls' = polls + 1
               /\ lastSensorPoll' = millis
               /\ previousDistance' = IF distance < 0 THEN previousDistance ELSE currentDistance
               /\ currentDistance' = IF distance < 0 THEN currentDistance ELSE distance
               /\ detectionActive' = s.detectionActive
               /\ firstDetectionTime' = s.firstDetectionTime
               /\ firstDetectionTimestamp' = s.firstDetectionTimestamp
               /\ lastAlertTime' = s.lastAlertTime
               /\ consecutiveValidReadings' = s.consecutiveValidReadings
               /\ consecutiveOutOfRange' = s.consecutiveOutOfRange
               /\ alertMark' = IF s.transition = "none" THEN alertMark ELSE <<-1, 0>>
               /\ pollMark' = clock
               /\ last' = [Call("pollSensor", TRUE, IF distance < 0 THEN "invalid" ELSE "valid")
                              EXCEPT !.duration = duration, !.distance = distance,
                                     !.transition = s.transition]
               /\ LET entry == [distance |-> distance, wasActive |-> detectionActive,
                                isActive |-> s.detectionActive]
                  IN  /\ trail' = Remember(trail, entry, TrailLen)
                      /\ validTrail' =
                             IF distance < 0 THEN validTrail
                             ELSE Remember(validTrail, entry, CONSECUTIVE_READINGS_REQUIRED)
               /\ UNCHANGED <<envVars, netVars, cryptoReady, msgVars, heartbeatMark,
                              advances, sends>>

\* mutation: one mark serves both timers
markAlertSentBothTimers ==
    /\ UNCHANGED <<budget, btnVars, cryVars, beatVars>>
    /\ lastAlertTime' = millis
    /\ alertMark' = clock
    /\ UNCHANGED pollMark
    /\ lastHeartbeatTime' = millis
    /\ last' = Call("markAlertSent", FALSE, "")
    /\ UNCHANGED <<envVars, netVars, cryptoReady, messagingReady, lastSensorPoll,
                   currentDistance, previousDistance, consecutiveValidReadings,
                   detectionActive, firstDetectionTime, firstDetectionTimestamp,
                   consecutiveOutOfRange, trail, validTrail, heartbeatMark, advances,
                   polls, sends>>

markAlertSent ==
    /\ UNCHANGED <<budget, btnVars, cryVars, beatVars>>
    /\ lastAlertTime' = millis
    /\ alertMark' = clock
    /\ UNCHANGED pollMark
    /\ last' = Call("markAlertSent", FALSE, "")
    /\ UNCHANGED <<envVars, netVars, cryptoReady, msgVars, lastSensorPoll, currentDistance,
                   previousDistance, consecutiveValidReadings, detectionActive,
                   firstDetectionTime, firstDetectionTimestamp, consecutiveOutOfRange,
                   trail, validTrail, heartbeatMark, advances, polls, sends>>

\* ---------------------------------------------------------------------------
\* The alert branch of the control loop: when isAlertDue(), one sendAlert()
\* and then markAlertSent(), whatever sendAlert() returned
\* ---------------------------------------------------------------------------
\* mutation: the alert timer is marked only after an accepted alert
alertTimeOnSuccess(success, now) == IF success THEN now ELSE lastAlertTime

\* "Scheduler timers updated regardless of outcome": the value markAlertSent()
\* leaves in lastAlertTime when the loop has sent an alert at millis() = now
alertTimeAfterSend(success, now) == now

markAlertSentAfter(success) ==
    /\ lastAlertTime' = alertTimeAfterSend(success, ULong(clock'))
    /\ alertMark' = IF lastAlertTime' = ULong(clock') THEN clock' ELSE alertMark
    /\ UNCHANGED pollMark
    /\ UNCHANGED <<lastSensorPoll, currentDistance, previousDistance,
                   consecutiveValidReadings, detectionActive, firstDetectionTime,
                   firstDetectionTimestamp, consecutiveOutOfRange>>

alertStep ==
    /\ isAlertDue
    /\ sendAlertThen
    /\ markAlertSentAfter(last'.ret)

\* ---------------------------------------------------------------------------
\* ESP8266_C3DS_sensor/hardware.cpp: checkButtonPress()
\* ---------------------------------------------------------------------------
ButtonLevels == {"HIGH", "LOW"}

\* between two press commits lie the blink of the status LED that follows an
\* accepted press, the release and one debounce window; the rest of a gap of
\* MIN_PRESS_INTERVAL + extra ms
PressGap(extra) ==
    Ms(MIN_PRESS_INTERVAL + extra - (DEBOUNCE_DELAY + 1) - blinkStatusLED(1, 100))

BtnDeltas ==
    {Ms(DEBOUNCE_DELAY), Ms(DEBOUNCE_DELAY + 1), WrapJump(MIN_PRESS_INTERVAL)}
    \cup {PressGap(x) : x \in {-1, 0, 1}}

\* lastDebounceTime after the test of reading != lastButtonState
debounceTimeAt(reading, now) ==
    IF reading # lastButtonState THEN now ELSE lastDebounceTime

\* mutation: a reading stable for exactly DEBOUNCE_DELAY passes (>= for >)
isDebouncedEarly(now, debounceTime) == AtLeast(USub(now, debounceTime), DEBOUNCE_DELAY)

\* (millis() - lastDebounceTime) > DEBOUNCE_DELAY
isDebounced(now, debounceTime) == AtLeast(USub(now, debounceTime), DEBOUNCE_DELAY + 1)

\* currentTime - lastPressTime >= MIN_PRESS_INTERVAL
isPressAllowed(currentTime) == AtLeast(USub(currentTime, lastPressTime), MIN_PRESS_INTERVAL)

\* mutation: a press inside the minimum interval is not committed
committedStateIfAllowed(reading, allowed) ==
    IF reading = "LOW" /\ ~allowed THEN buttonState ELSE reading

\* mutation: every debounced press restarts the minimum interval
pressTimeAfterAnyPress(press, accepted, now) ==
    IF press THEN now ELSE lastPressTime

\* lastPressTime after the call: written inside the test of the minimum
\* interval only
pressTimeAfter(press, accepted, now) ==
    IF accepted THEN now ELSE lastPressTime

\* mutation: a press is reported but the pressed level is not stored
committedStateForgetsPress(reading, allowed) ==
    IF reading = "LOW" THEN buttonState ELSE reading

\* buttonState after a debounced reading that differs from it: assigned before
\* the minimum interval is tested
committedState(reading, allowed) == reading

checkButtonPress ==
    /\ UNCHANGED <<budget, cryVars, beatVars, alertVars>>
    /\ button.calls < budget.polls
    /\ \E reading \in ButtonLevels :
           LET now       == millis
               debounce  == debounceTimeAt(reading, now)
               committed == isDebounced(now, debounce) /\ reading # buttonState
               press     == committed /\ reading = "LOW"
               accepted  == press /\ isPressAllowed(now)
           IN  /\ lastDebounceTime' = debounce
               /\ buttonState' = IF committed
                                 THEN committedState(reading, isPressAllowed(now))
                                 ELSE buttonState
               /\ lastPressTime' = pressTimeAfter(press, accepted, now)
               /\ lastButtonState' = IF accepted THEN lastButtonState ELSE reading
               /\ Advance(IF accepted THEN Ms(blinkStatusLED(1, 100)) ELSE Ms(0))
               /\ last' = [Call("checkButtonPress", accepted,
                                IF accepted THEN "pressed"
                                ELSE IF press THEN "ignored"
                                ELSE IF committed THEN "released" ELSE "")
                              EXCEPT !.transition = IF committed THEN "commit" ELSE "none"]
               /\ button' =
                      [ calls        |-> button.calls + 1,
                        reading      |-> reading,
                        changedAt    |-> IF reading # button.reading THEN clock
                                         ELSE button.changedAt,
                        presses      |-> IF press THEN button.presses + 1
                                         ELSE button.presses,
                        pressAt      |-> IF press THEN clock ELSE button.pressAt,
                        pressRet     |-> IF press THEN accepted ELSE button.pressRet,
                        prevPressAt  |-> IF press THEN button.pressAt ELSE button.prevPressAt,
                        prevPressRet |-> IF press THEN button.pressRet
                                         ELSE button.prevPressRet,
                        acceptedAt   |-> IF accepted THEN clock ELSE button.acceptedAt ]
               /\ UNCHANGED <<wifiConnected, ntpSynced, netVars, cryptoReady, msgVars, hwVars,
                              trail, validTrail, heartbeatMark, polls, sends>>

\* ---------------------------------------------------------------------------
\* Specification
\* ---------------------------------------------------------------------------
\* the whole device
Next ==
    \/ Tick
    \/ WiFiChange
    \/ initializeCrypto
    \/ initializeNTP
    \/ initializeMessaging
    \/ sendHeartbeat
    \/ sendAlert
    \/ pollSensor
    \/ markAlertSent

Spec == Init /\ [][Next]_vars

\* messaging.cpp through two heartbeats, an interval or a little less apart
BeatDeltas == {Ms(HEARTBEAT_INTERVAL - 1), Ms(HEARTBEAT_INTERVAL)}

BeatHttpCodes == {-1, 200}

BeatInit ==
    InitWith([advances |-> BeatMaxAdvances, polls |-> 0, sends |-> BeatMaxSends,
              deltas |-> BeatDeltas, durations |-> Durations, codes |-> BeatHttpCodes,
              rtts |-> RoundTrips])

BeatNext ==
    \/ Tick
    \/ WiFiChange
    \/ initializeCrypto
    \/ initializeNTP
    \/ initializeMessaging
    \/ sendHeartbeat

SpecBeat == BeatInit /\ [][BeatNext]_vars

\* the whole device with enough polls to enter Detecting and go on
EpisodeDeltas == {Ms(ALERT_INTERVAL)}

EpisodeHttpCodes == {200}

EpisodeRoundTrips == {0}

EpisodeInit ==
    InitWith([advances |-> EpisodeMaxAdvances, polls |-> EpisodeMaxPolls,
              sends |-> EpisodeMaxSends, deltas |-> EpisodeDeltas,
              durations |-> FrameDurations, codes |-> EpisodeHttpCodes,
              rtts |-> EpisodeRoundTrips])

SpecEpisode == EpisodeInit /\ [][Next]_vars

\* the whole device with a heartbeat due while an object is detected
FrameDeltas == {WrapJump(HEARTBEAT_INTERVAL)}

FrameInit ==
    InitWith([advances |-> FrameMaxAdvances, polls |-> FrameMaxPolls,
              sends |-> FrameMaxSends, deltas |-> FrameDeltas,
              durations |-> FrameDurations, codes |-> EpisodeHttpCodes,
              rtts |-> EpisodeRoundTrips])

SpecFrame == FrameInit /\ [][Next]_vars

\* the three timers across a wrap of millis(): the clock jumps to the last
\* millisecond before the wrap, the marks are taken there or later, and the
\* steps that follow add up to the intervals and to less
WrapDeltas == {WrapJump(1), Ms(1), Ms(ALERT_INTERVAL - 1), Ms(HEARTBEAT_INTERVAL)}

WrapDurations == {1400}

WrapInit ==
    InitWith([advances |-> WrapMaxAdvances, polls |-> WrapMaxPolls, sends |-> 0,
              deltas |-> WrapDeltas, durations |-> WrapDurations,
              codes |-> EpisodeHttpCodes, rtts |-> EpisodeRoundTrips])

WrapNext ==
    \/ Tick
    \/ WiFiChange
    \/ initializeCrypto
    \/ initializeNTP
    \/ initializeMessaging
    \/ sendHeartbeat
    \/ pollSensor
    \/ markAlertSent

SpecWrap == WrapInit /\ [][WrapNext]_vars

\* hardware.cpp alone: its statics are file-local, so only its own functions
\* write them
HwInit ==
    InitWith([advances |-> HwMaxAdvances, polls |-> HwMaxPolls, sends |-> 0,
              deltas |-> HwDeltas, durations |-> Durations, codes |-> HttpCodes,
              rtts |-> RoundTrips])

HwNext ==
    \/ Tick
    \/ pollSensor
    \/ markAlertSent

SpecHw == HwInit /\ [][HwNext]_vars

\* messaging.cpp with the modules it calls; no sensor is polled
MsgInit ==
    InitWith([advances |-> MsgMaxAdvances, polls |-> 0, sends |-> MsgMaxSends,
              deltas |-> MsgDeltas, durations |-> Durations, codes |-> HttpCodes,
              rtts |-> RoundTrips])

MsgNext ==
    \/ Tick
    \/ WiFiChange
    \/ initializeCrypto
    \/ initializeNTP
    \/ initializeMessaging
    \/ sendHeartbeat
    \/ sendAlert

SpecMsg == MsgInit /\ [][MsgNext]_vars

\* messaging.cpp with results of http.POST() at both ends of every range that
\* sendHTTPRequest() tests, and well inside each
ResultCodes ==
    {-1000, -11, -1, 0, 1, 100, 199, 200, 201, 202, 299, 300, 301, 399, 400, 401,
     402, 403, 404, 499, 500, 503, 599, 600, 1000}

HttpDeltas == {Ms(1)}

HttpInit ==
    InitWith([advances |-> HttpMaxAdvances, polls |-> 0, sends |-> HttpMaxSends,
              deltas |-> HttpDeltas, durations |-> Durations, codes |-> ResultCodes,
              rtts |-> RoundTrips])

SpecHttp == HttpInit /\ [][MsgNext]_vars

\* the sensor and the alert branch of the loop, after any set-up
AlertInit ==
    InitWith([advances |-> AlertMaxAdvances, polls |-> AlertMaxPolls,
              sends |-> AlertMaxSends, deltas |-> AlertDeltas,
              durations |-> AlertDurations, codes |-> AlertHttpCodes,
              rtts |-> RoundTrips])

AlertNext ==
    \/ Tick
    \/ WiFiChange
    \/ initializeCrypto
    \/ initializeNTP
    \/ initializeMessaging
    \/ pollSensor
    \/ alertStep

SpecAlert == AlertInit /\ [][AlertNext]_vars

\* ESP8266_C3DS_sensor/hardware.cpp alone: the button is sampled as time passes
BtnInit ==
    InitWith([advances |-> BtnMaxAdvances, polls |-> BtnMaxCalls, sends |-> 0,
              deltas |-> BtnDeltas, durations |-> Durations, codes |-> HttpCodes,
              rtts |-> RoundTrips])

BtnNext ==
    \/ Tick
    \/ checkButtonPress

SpecBtn == BtnInit /\ [][BtnNext]_vars

\* ESP8266_C3DS_sensor/hardware.cpp through three presses: time passes by one
\* debounce window, or by what brings the first press to MIN_PRESS_INTERVAL
\* after boot
PressDeltas ==
    {Ms(DEBOUNCE_DELAY + 1), Ms(MIN_PRESS_INTERVAL - 2 * (DEBOUNCE_DELAY + 1))}

PressInit ==
    InitWith([advances |-> PressMaxAdvances, polls |-> PressMaxCalls, sends |-> 0,
              deltas |-> PressDeltas, durations |-> Durations, codes |-> HttpCodes,
              rtts |-> RoundTrips])

SpecPress == PressInit /\ [][BtnNext]_vars

\* ---------------------------------------------------------------------------
\* crypto.cpp called directly
\* ---------------------------------------------------------------------------
\* byte values at the edges of the 6-bit groups and of the sign bit
Bytes == {0, 1, 127, 128, 255}

RECURSIVE BytesOfLen(_)
BytesOfLen(n) ==
    IF n = 0 THEN {<<>>}
    ELSE {Append(d, b) : d \in BytesOfLen(n - 1), b \in Bytes}

\* the inputs of base64Encode(): every string of 0..MaxBase64Len bytes, and
\* the DER signatures signMessage() passes to it
Base64Inputs ==
    UNION {BytesOfLen(n) : n \in 0..MaxBase64Len}
    \cup {encodeSignatureToDER(sig) : sig \in RawSignatures}

\* 32-byte big-endian integers: zeros leading zero bytes, then first, then 0x01
\* bytes; zeros = 32 is the integer 0
Int256Of(zeros, first) ==
    [i \in 1..32 |-> IF i <= zeros THEN 0 ELSE IF i = zeros + 1 THEN first ELSE 1]

Int256Inputs ==
    {Int256Of(zeros, first) : zeros \in {0, 1, 30, 31}, first \in {1, 127, 128, 255}}
    \cup {Int256Of(32, 0)}

\* the inputs of encodeSignatureToDER(): r || s
DerInputs == {r \o s : r \in Int256Inputs, s \in Int256Inputs}

\* the messages passed to signMessage(): the empty String and a document
Messages == {<<>>, << <<"device_id", DEVICE_ID>> >>}

callBase64Encode ==
    /\ \E data \in Base64Inputs :
           cryptoCall' = [NoCryptoCall EXCEPT !.op = "base64Encode", !.data = data,
                                              !.out = base64Encode(data)]
    /\ last' = Call("base64Encode", FALSE, "")
    /\ UNCHANGED <<envVars, netVars, cryptoReady, msgVars, hwVars, btnVars, trail,
                   validTrail, heartbeatMark, beatVars, alertVars, advances, polls, sends, budget>>

callEncodeSignatureToDER ==
    /\ \E raw_sig \in DerInputs :
           cryptoCall' = [NoCryptoCall EXCEPT !.op = "encodeSignatureToDER",
                                              !.data = raw_sig,
                                              !.out = encodeSignatureToDER(raw_sig)]
    /\ last' = Call("encodeSignatureToDER", FALSE, "")
    /\ UNCHANGED <<envVars, netVars, cryptoReady, msgVars, hwVars, btnVars, trail,
                   validTrail, heartbeatMark, beatVars, alertVars, advances, polls, sends, budget>>

\* uECC_sign() is reached only past the test of cryptoReady
callSignMessage ==
    /\ \E message \in Messages, sign \in SignOutcomes :
           LET invoked == signReachesPrimitive
           IN  cryptoCall' = [ op      |-> "signMessage",
                               data    |-> message,
                               out     |-> signMessage(message, sign),
                               ready   |-> cryptoReady,
                               invoked |-> invoked,
                               result  |-> IF invoked THEN sign.result ELSE 0 ]
    /\ last' = Call("signMessage", FALSE, "")
    /\ UNCHANGED <<envVars, netVars, cryptoReady, msgVars, hwVars, btnVars, trail,
                   validTrail, heartbeatMark, beatVars, alertVars, advances, polls, sends, budget>>

CryptoInit ==
    InitWith([advances |-> 0, polls |-> 0, sends |-> 0, deltas |-> {Ms(0)},
              durations |-> Durations, codes |-> HttpCodes,
              rtts |-> RoundTrips])

CryptoNext ==
    \/ initializeCrypto
    \/ callBase64Encode
    \/ callEncodeSignatureToDER
    \/ callSignMessage

SpecCrypto == CryptoInit /\ [][CryptoNext]_vars

\* ---------------------------------------------------------------------------
\* Properties: heartbeat timer (SpecMsg)
\* ---------------------------------------------------------------------------
\* sendHeartbeat() returned after it had called sendHTTPRequest()
HeartbeatAttempted == last.op = "sendHeartbeat" /\ last.path = "sent"

\* C1: after every sendHeartbeat() that passed the readiness and WiFi checks
\* and obtained a non-empty signature, lastHeartbeatTime is the millis() at
\* which the send attempt ended, whatever its outcome (a status code, a
\* transport error, or http.begin() failing), and isHeartbeatDue() is false.
C1_HeartbeatMarkedAfterAttempt ==
    HeartbeatAttempted =>
        /\ Len(last.signature) > 0
        /\ lastHeartbeatTime = millis
        /\ ~isHeartbeatDue

\* a heartbeat whose POST failed in the transport, returning after the clock
\* had moved
C1_Witness ==
    /\ HeartbeatAttempted
    /\ ~last.ret
    /\ last.request.code = -1
    /\ Len(last.request.posts) = 1
    /\ clock # Ms(0)
    /\ lastHeartbeatTime = millis

\* C2: every call of sendHeartbeat(), the calls that skip the send included
\* (signing failed, WiFi disconnected, messaging not initialised), leaves
\* isHeartbeatDue() false.
C2_HeartbeatTimerAlwaysAdvances ==
    last.op = "sendHeartbeat" => ~isHeartbeatDue

\* time elapsed since the heartbeat timer was last marked
SinceHeartbeatMark == Minus(clock, heartbeatMark)

\* C10: once the heartbeat timer has been marked (initializeMessaging()
\* succeeded or sendHeartbeat() completed), isHeartbeatDue() is true exactly
\* when at least HEARTBEAT_INTERVAL ms have elapsed since the mark: false at
\* the mark and up to HEARTBEAT_INTERVAL - 1, true from HEARTBEAT_INTERVAL on.
\* The elapsed time is less than one period (2^32 ms) of millis().
C10_HeartbeatDueExactlyAtInterval ==
    (heartbeatMark[1] >= 0 /\ SinceHeartbeatMark[1] < LIMB) =>
        /\ lastHeartbeatTime = ULong(heartbeatMark)
        /\ isHeartbeatDue <=> AtLeast(SinceHeartbeatMark, HEARTBEAT_INTERVAL)

\* exactly HEARTBEAT_INTERVAL ms after the mark, one ms after not being due
C10_Witness ==
    /\ heartbeatMark[1] >= 0
    /\ last.op = "tick"
    /\ SinceHeartbeatMark = Ms(HEARTBEAT_INTERVAL)
    /\ isHeartbeatDue

\* ---------------------------------------------------------------------------
\* Properties: detection state machine and alert timer (SpecHw)
\* ---------------------------------------------------------------------------
\* pollSensor() has just returned
Polled == last.op = "pollSensor"

\* a poll measured a valid distance at most / more than cm centimetres
ValidWithin(e, cm) == e.distance >= 0 /\ e.distance <= Cm(cm)

ValidBeyond(e, cm) == e.distance >= 0 /\ e.distance > Cm(cm)

\* the last n entries of a sequence of at least n entries
LastN(t, n) == {t[i] : i \in (Len(t) - n + 1)..Len(t)}

\* C3: at every Idle -> Detecting transition the alert timer is reset so that
\* isAlertDue() is true right away, whatever millis() is.
C3_AlertDueOnEnteringDetecting ==
    (Polled /\ last.transition = "toDetecting") => isAlertDue

\* C4: from Idle, pollSensor() enters Detecting exactly at the poll that
\* completes CONSECUTIVE_READINGS_REQUIRED consecutive polls, all taken in
\* Idle, each valid and at most DETECTION_THRESHOLD_CM away: not before, and
\* not when an invalid or farther reading is among them.
C4_EntersAfterNInRange ==
    LET n == CONSECUTIVE_READINGS_REQUIRED
        entered == trail[Len(trail)].isActive /\ ~trail[Len(trail)].wasActive
        run == /\ Len(trail) >= n
               /\ \A e \in LastN(trail, n) :
                      ~e.wasActive /\ ValidWithin(e, DETECTION_THRESHOLD_CM)
    IN  Len(trail) > 0 => (entered <=> run)

\* the readings 26, 24, 24 cm from Idle: Detecting at the third, not before
C4_Witness ==
    /\ Polled
    /\ Len(trail) = 3
    /\ ValidBeyond(trail[1], DETECTION_THRESHOLD_CM) /\ ~trail[1].isActive
    /\ ValidWithin(trail[2], DETECTION_THRESHOLD_CM) /\ ~trail[2].isActive
    /\ ValidWithin(trail[3], DETECTION_THRESHOLD_CM) /\ trail[3].isActive
    /\ detectionActive

\* C5: from Detecting, the state returns to Idle exactly at the poll at which
\* the last CONSECUTIVE_READINGS_REQUIRED valid readings, all taken in
\* Detecting, are farther than DETECTION_THRESHOLD_CM + DETECTION_HYSTERESIS_CM;
\* invalid readings between them are skipped: they neither count nor reset.
C5_LeavesAfterNOutOfRange ==
    LET n == CONSECUTIVE_READINGS_REQUIRED
        far == DETECTION_THRESHOLD_CM + DETECTION_HYSTERESIS_CM
        newest == validTrail[Len(validTrail)]
        left == newest.wasActive /\ ~newest.isActive
        run == /\ Len(validTrail) >= n
               /\ \A e \in LastN(validTrail, n) : e.wasActive /\ ValidBeyond(e, far)
    IN  /\ Len(validTrail) > 0 => (left <=> run)
        /\ (Polled /\ last.transition = "toIdle") =>
               /\ last.distance >= 0
               /\ left
               /\ ~detectionActive

\* the readings 30, invalid, 30 cm in Detecting: Idle at the second 30
C5_Witness ==
    /\ Polled
    /\ last.transition = "toIdle"
    /\ Len(trail) = 3
    /\ ValidBeyond(trail[1], DETECTION_THRESHOLD_CM + DETECTION_HYSTERESIS_CM)
    /\ trail[1].wasActive /\ trail[1].isActive
    /\ trail[2].distance < 0
    /\ ValidBeyond(trail[3], DETECTION_THRESHOLD_CM + DETECTION_HYSTERESIS_CM)
    /\ ~detectionActive

\* the step is a pollSensor() call whose echo time is a failed measurement:
\* a timeout, or a distance outside SENSOR_MIN_DISTANCE_CM..SENSOR_MAX_DISTANCE_CM
InvalidPoll ==
    /\ polls' = polls + 1
    /\ \/ last'.duration = 0
       \/ last'.duration * SPEED_NUM < Cm(SENSOR_MIN_DISTANCE_CM)
       \/ last'.duration * SPEED_NUM > Cm(SENSOR_MAX_DISTANCE_CM)

\* C6: a poll with an invalid reading sets consecutiveValidReadings to 0 and
\* leaves detectionActive, consecutiveOutOfRange, currentDistance,
\* firstDetectionTime and lastAlertTime as they were; so it never moves
\* Detecting to Idle.
C6_InvalidReadingFrame ==
    [][InvalidPoll =>
          /\ consecutiveValidReadings' = 0
          /\ UNCHANGED <<detectionActive, consecutiveOutOfRange, currentDistance,
                         firstDetectionTime, lastAlertTime>>]_vars

\* an invalid reading in Detecting while one out-of-range reading is counted
C6_Witness ==
    /\ Polled
    /\ last.path = "invalid"
    /\ last.wasActive
    /\ detectionActive
    /\ consecutiveOutOfRange = 1
    /\ consecutiveValidReadings = 0

\* the classification of the reading of the last poll, made in the state the
\* poll started in
LastReadingInRange ==
    last.distance <= Cm(IF last.wasActive
                        THEN DETECTION_THRESHOLD_CM + DETECTION_HYSTERESIS_CM
                        ELSE DETECTION_THRESHOLD_CM)

\* C7: consecutiveValidReadings and consecutiveOutOfRange are never both
\* non-zero; after a valid in-range reading the exit counter is 0 and after a
\* valid out-of-range reading the in-range counter is 0.
C7_CountersMutuallyExclusive ==
    /\ consecutiveValidReadings = 0 \/ consecutiveOutOfRange = 0
    /\ (Polled /\ last.path = "valid" /\ LastReadingInRange) => consecutiveOutOfRange = 0
    /\ (Polled /\ last.path = "valid" /\ ~LastReadingInRange) => consecutiveValidReadings = 0

\* in Detecting, an in-range reading right after a counted out-of-range one
C7_Witness ==
    /\ Polled
    /\ last.path = "valid"
    /\ LastReadingInRange
    /\ last.wasActive
    /\ Len(trail) >= 2
    /\ trail[Len(trail) - 1].wasActive
    /\ ValidBeyond(trail[Len(trail) - 1], DETECTION_THRESHOLD_CM + DETECTION_HYSTERESIS_CM)
    /\ consecutiveValidReadings > 0
    /\ consecutiveOutOfRange = 0

\* the step is a pollSensor() call with a valid reading d in the band
\* DETECTION_THRESHOLD_CM < d <= DETECTION_THRESHOLD_CM + DETECTION_HYSTERESIS_CM
BandPoll ==
    /\ polls' = polls + 1
    /\ last'.distance > Cm(DETECTION_THRESHOLD_CM)
    /\ last'.distance <= Cm(DETECTION_THRESHOLD_CM + DETECTION_HYSTERESIS_CM)

\* both thresholds are inclusive
ThresholdsInclusive ==
    /\ isDistanceInDetectionRange(FALSE, Cm(DETECTION_THRESHOLD_CM))
    /\ ~isDistanceInDetectionRange(FALSE, Cm(DETECTION_THRESHOLD_CM) + 1)
    /\ isDistanceInDetectionRange(TRUE, Cm(DETECTION_THRESHOLD_CM + DETECTION_HYSTERESIS_CM))
    /\ ~isDistanceInDetectionRange(TRUE, Cm(DETECTION_THRESHOLD_CM + DETECTION_HYSTERESIS_CM) + 1)

\* C8: a reading is in range up to and including DETECTION_THRESHOLD_CM in
\* Idle and up to and including DETECTION_THRESHOLD_CM + DETECTION_HYSTERESIS_CM
\* in Detecting, so a valid reading in the band between them leaves the
\* detection state as it is, in Idle and in Detecting.
C8_BandReadingKeepsState ==
    [][BandPoll => (ThresholdsInclusive /\ detectionActive' = detectionActive)]_vars

\* in Detecting, two band readings in a row after an out-of-range one
C8_Witness ==
    /\ Polled
    /\ detectionActive
    /\ Len(trail) = 3
    /\ trail[1].wasActive
    /\ ValidBeyond(trail[1], DETECTION_THRESHOLD_CM + DETECTION_HYSTERESIS_CM)
    /\ \A i \in 2..3 :
           /\ trail[i].wasActive
           /\ ValidBeyond(trail[i], DETECTION_THRESHOLD_CM)
           /\ ValidWithin(trail[i], DETECTION_THRESHOLD_CM + DETECTION_HYSTERESIS_CM)

\* millis() - lastAlertTime in unsigned 32-bit arithmetic
TimeSinceLastAlert == USub(millis, lastAlertTime)

\* C9: isAlertDue() is true exactly when detection is active and
\* millis() - lastAlertTime >= ALERT_INTERVAL; it is false in Idle however
\* long ago the last alert was.
C9_AlertDueIffActiveAndElapsed ==
    /\ isAlertDue <=> (detectionActive /\ AtLeast(TimeSinceLastAlert, ALERT_INTERVAL))
    /\ ~detectionActive => ~isAlertDue

\* Idle is entered while a full alert interval has elapsed
C9_Witness ==
    /\ Polled
    /\ last.transition = "toIdle"
    /\ AtLeast(TimeSinceLastAlert, ALERT_INTERVAL)
    /\ ~isAlertDue

\* ---------------------------------------------------------------------------
\* Properties: alert timer in the control loop (SpecAlert)
\* ---------------------------------------------------------------------------
\* C11: when the loop's alert attempt has completed, whether the alert was
\* accepted, answered with an HTTP error, lost in the transport or never
\* signed, the alert timer holds the current millis() and isAlertDue() is
\* false, so the next attempt waits for ALERT_INTERVAL.
C11_AlertTimerMarkedAfterAttempt ==
    last.op = "sendAlert" =>
        /\ lastAlertTime = millis
        /\ ~isAlertDue

\* an alert that was due, was posted and failed in the transport
C11_Witness ==
    /\ last.op = "sendAlert"
    /\ last.path = "sent"
    /\ ~last.ret
    /\ last.request.code = -1
    /\ detectionActive
    /\ lastAlertTime = millis
    /\ lastAlertTime # Ms(0)

\* ---------------------------------------------------------------------------
\* Properties: button debounce and rate limit (SpecBtn)
\* ---------------------------------------------------------------------------
\* the step is a call of checkButtonPress()
ButtonCall == button'.calls = button.calls + 1

\* C12: a call of checkButtonPress() changes buttonState only to the reading
\* it took, and only when every call since the one that first saw that level
\* read the same and more than DEBOUNCE_DELAY ms have passed since that call;
\* it returns true only when it changed buttonState. A level that changes
\* again within DEBOUNCE_DELAY ms is never committed.
C12_CommitOnlyAfterDebounce ==
    [][ButtonCall =>
          /\ buttonState' # buttonState =>
                 /\ buttonState' = button'.reading
                 /\ AtLeast(Minus(clock, button'.changedAt), DEBOUNCE_DELAY + 1)
          /\ last'.ret => buttonState' # buttonState]_vars

\* a release committed DEBOUNCE_DELAY + 1 ms after it was first read
C12_Witness ==
    /\ last.op = "checkButtonPress"
    /\ last.path = "released"
    /\ buttonState = "HIGH"
    /\ Minus(clock, button.changedAt) = Ms(DEBOUNCE_DELAY + 1)

\* time between the last two press commits
PressGapSeen == Minus(button.pressAt, button.prevPressAt)

\* C13: of the first two debounced presses, both return true when they are
\* committed MIN_PRESS_INTERVAL + 1 ms apart and only the first does when they
\* are MIN_PRESS_INTERVAL - 1 ms apart; and any press committed at least
\* MIN_PRESS_INTERVAL ms after the press before it returns true.
C13_RateLimitOnPresses ==
    /\ (button.presses = 2 /\ PressGapSeen = Ms(MIN_PRESS_INTERVAL + 1)) =>
           (button.prevPressRet /\ button.pressRet)
    /\ (button.presses = 2 /\ PressGapSeen = Ms(MIN_PRESS_INTERVAL - 1)) =>
           (button.prevPressRet /\ ~button.pressRet)
    /\ (button.presses >= 2 /\ AtLeast(PressGapSeen, MIN_PRESS_INTERVAL)) =>
           button.pressRet

\* C14: a call of checkButtonPress() that rejects a debounced press by the
\* minimum interval leaves buttonState at its previous value, leaves
\* lastPressTime unchanged and returns false.
C14_RejectedPressNotCommitted ==
    [][(ButtonCall /\ last'.path = "ignored") =>
          /\ buttonState' = buttonState
          /\ lastPressTime' = lastPressTime
          /\ ~last'.ret]_vars

\* C14 as amended: a call of checkButtonPress() that rejects a debounced press
\* by the minimum interval returns false and leaves lastPressTime unchanged,
\* and the commit is made all the same: buttonState goes from HIGH to LOW.
C14_RejectedPressCommitted ==
    [][(ButtonCall /\ last'.path = "ignored") =>
          /\ buttonState = "HIGH"
          /\ buttonState' = "LOW"
          /\ lastPressTime' = lastPressTime
          /\ ~last'.ret]_vars

\* the second press, rejected after an accepted first one
C14_Witness ==
    /\ last.op = "checkButtonPress"
    /\ last.path = "ignored"
    /\ ~last.ret
    /\ buttonState = "LOW"
    /\ button.presses = 2
    /\ button.prevPressRet
    /\ lastPressTime = ULong(button.prevPressAt)

\* ---------------------------------------------------------------------------
\* Properties: response classification and the request (SpecMsg)
\* ---------------------------------------------------------------------------
\* the last operation was a send that issued its POST
Posted ==
    /\ last.op \in {"sendHeartbeat", "sendAlert"}
    /\ last.path = "sent"
    /\ Len(last.request.posts) > 0

\* the error code shown by a pattern, 0 for the success pattern
ShownCodes == {last.request.patterns[i].blinks * (IF last.request.patterns[i].each = 200 THEN 1 ELSE 0)
                   : i \in 1..Len(last.request.patterns)}

\* C15: a send whose POST is answered with a status in 200..299 returns true
\* and shows the success pattern, once.
C15_Every2xxIsSuccess ==
    (Posted /\ last.request.code >= 200 /\ last.request.code <= 299) =>
        /\ last.ret
        /\ last.request.patterns = <<showSuccessPattern>>

\* C16: a send answered with 401 or 403 returns false and shows error pattern
\* 4; no other result shows pattern 4: 400 shows 3, the other 4xx show 6,
\* statuses from 500 show 5 and transport results (<= 0) show 10.
C16_AuthFailureShownAsFour ==
    Posted =>
        LET code == last.request.code
        IN  /\ code \in {401, 403} => (~last.ret /\ last.request.patterns = <<showErrorPattern(4)>>)
            /\ code \notin {401, 403} => 4 \notin ShownCodes
            /\ code = 400 => ShownCodes = {3}
            /\ (code > 400 /\ code < 500 /\ code \notin {401, 403}) => ShownCodes = {6}
            /\ code >= 500 => ShownCodes = {5}
            /\ code <= 0 => ShownCodes = {10}

\* an alert refused with 403
C16_Witness ==
    /\ Posted
    /\ last.op = "sendAlert"
    /\ last.request.code = 403
    /\ ~last.ret
    /\ ShownCodes = {4}

\* the transport results named by HTTPClient, and the failure each stands for
TransportCodes == {-1, -2, -3, -4, -5, -11}

TransportClass(errorCode) ==
    CASE errorCode = -1  -> "connect failure"
      [] errorCode \in {-2, -3} -> "send failure"
      [] errorCode = -4  -> "not connected"
      [] errorCode = -5  -> "connection lost"
      [] errorCode = -11 -> "read timeout"

\* C17: a send that ends in a transport result returns false, and the pattern
\* it shows differs from the pattern of every transport result of another
\* class.
C17_TransportClassesShownApart ==
    (Posted /\ last.request.code \in TransportCodes) =>
        /\ ~last.ret
        /\ \A other \in TransportCodes :
               TransportClass(other) # TransportClass(last.request.code) =>
                   classifyResponse(other).patterns # last.request.patterns

\* C17 as amended: a send that ends in a transport result returns false and
\* shows error pattern 10 whichever result it is; the results are told apart
\* only by the diagnostic line, which differs for each of them.
C17_TransportResultsSharePattern ==
    (Posted /\ last.request.code \in TransportCodes) =>
        /\ ~last.ret
        /\ last.request.patterns = <<showErrorPattern(10)>>
        /\ \A other \in TransportCodes :
               /\ classifyResponse(other).patterns = last.request.patterns
               /\ other # last.request.code =>
                      classifyResponse(other).diag # last.request.diag

\* a heartbeat that ended in a read timeout
C17_Witness ==
    /\ Posted
    /\ last.op = "sendHeartbeat"
    /\ last.request.code = -11
    /\ ~last.ret
    /\ last.request.diag = "Read timeout"
    /\ ShownCodes = {10}

\* C18: a call of sendHeartbeat() or sendAlert() issues at most one POST,
\* whatever its outcome, and none on the paths that return before the request.
C18_AtMostOnePostPerCall ==
    last.op \in {"sendHeartbeat", "sendAlert"} =>
        /\ Len(last.request.posts) <= 1
        /\ last.path # "sent" => Len(last.request.posts) = 0

\* a heartbeat answered with 500: failed, posted once
C18_Witness ==
    /\ last.op = "sendHeartbeat"
    /\ last.path = "sent"
    /\ ~last.ret
    /\ last.request.code = 500
    /\ Len(last.request.posts) = 1

\* C19: the body of every POST is the string that was passed to
\* signMessage(), unchanged, and its X-Device-Signature header is the string
\* signMessage() returned for it.
C19_SignedBytesAreSentBytes ==
    last.op \in {"sendHeartbeat", "sendAlert"} =>
        \A i \in 1..Len(last.request.posts) :
            /\ last.request.posts[i].body = last.signedMessage
            /\ last.request.posts[i].signature = last.signature
            /\ \E sign \in SignOutcomes :
                   last.signature = signMessage(last.request.posts[i].body, sign)

\* an alert accepted by the server
C19_Witness ==
    /\ Posted
    /\ last.op = "sendAlert"
    /\ last.ret
    /\ last.request.posts[1].body = last.signedMessage
    /\ Len(last.signedMessage) > 0

\* C20: a call whose signMessage() returned the empty string returns false
\* and issues no request; every POST carries a non-empty signature.
C20_NoPostWithoutSignature ==
    last.op \in {"sendHeartbeat", "sendAlert"} =>
        /\ last.path = "Failed to sign message" =>
               (~last.ret /\ Len(last.request.posts) = 0)
        /\ (Len(last.signature) = 0 /\ last.path \notin
                {"Messaging not initialized", "WiFi not connected"}) =>
               last.path = "Failed to sign message"
        /\ \A i \in 1..Len(last.request.posts) :
               Len(last.request.posts[i].signature) > 0

\* a heartbeat given up because uECC_sign() failed with the key loaded
C20_Witness ==
    /\ last.op = "sendHeartbeat"
    /\ last.path = "Failed to sign message"
    /\ ~last.ret
    /\ cryptoReady
    /\ messagingReady
    /\ Len(last.request.posts) = 0

\* ---------------------------------------------------------------------------
\* Properties: the signer (SpecCrypto)
\* ---------------------------------------------------------------------------
\* C21: signMessage() returns the empty string exactly when the module is not
\* initialised, and then uECC_sign() is not invoked, or when uECC_sign()
\* reports failure; any other call, for the empty message too, returns a
\* non-empty string whose length is a multiple of 4.
C21_SignatureEmptyOnlyOnFailure ==
    cryptoCall.op = "signMessage" =>
        /\ Len(cryptoCall.out) = 0 <=>
               (~cryptoCall.ready \/ (cryptoCall.invoked /\ cryptoCall.result = 0))
        /\ ~cryptoCall.ready => ~cryptoCall.invoked
        /\ Len(cryptoCall.out) > 0 => Len(cryptoCall.out) % 4 = 0

\* the empty message signed with the module ready
C21_Witness ==
    /\ cryptoCall.op = "signMessage"
    /\ cryptoCall.data = <<>>
    /\ cryptoCall.ready
    /\ cryptoCall.result = 1
    /\ Len(cryptoCall.out) > 0
    /\ Len(cryptoCall.out) % 4 = 0

\* the fields of a DER signature read back from the bytes written
DerLenR(der) == der[4]

DerLenS(der) == der[6 + DerLenR(der)]

DerR(der) == SubSeq(der, 5, 4 + DerLenR(der))

DerS(der) == SubSeq(der, 7 + DerLenR(der), Len(der))

\* C22: encodeSignatureToDER() writes 0x30, L, 0x02, len_r, r_enc, 0x02,
\* len_s, s_enc with returned length 6 + len_r + len_s, L the returned length
\* minus 2 and len_r, len_s in 1..33, so at most 72 bytes.
C22_DerLayoutAndLength ==
    cryptoCall.op = "encodeSignatureToDER" =>
        LET der == cryptoCall.out
        IN  /\ Len(der) >= 8
            /\ der[1] = 48
            /\ der[2] = Len(der) - 2
            /\ der[3] = 2
            /\ DerLenR(der) \in 1..33
            /\ der[5 + DerLenR(der)] = 2
            /\ DerLenS(der) \in 1..33
            /\ Len(der) = 6 + DerLenR(der) + DerLenS(der)
            /\ Len(DerS(der)) = DerLenS(der)
            /\ Len(der) <= 72

\* the integer 0 for r and a full-width s: the shortest and a long INTEGER
C22_Witness ==
    /\ cryptoCall.op = "encodeSignatureToDER"
    /\ SubSeq(cryptoCall.data, 1, 32) = Int256Of(32, 0)
    /\ DerLenR(cryptoCall.out) = 1
    /\ DerLenS(cryptoCall.out) = 33
    /\ Len(cryptoCall.out) = 40

\* e is the minimal DER content of the non-negative 32-byte integer x, of
\* which stripped leading bytes were dropped
MinimalInteger(e, x) ==
    LET padded == e[1] = 0 /\ Len(e) > 1 /\ e[2] >= 128
        kept   == IF padded THEN SubSeq(e, 2, Len(e)) ELSE e
        dropped == 32 - Len(kept)
    IN  /\ Len(e) \in 1..33
        /\ e[1] < 128
        /\ Len(e) = 1 \/ e[1] # 0 \/ e[2] >= 128
        /\ dropped \in 0..31
        /\ \A i \in 1..dropped : x[i] = 0
        /\ kept = SubSeq(x, dropped + 1, 32)
        /\ padded <=> kept[1] >= 128

\* C23: r and s are each written as the minimal non-negative INTEGER of the
\* same value: at most 31 leading zero bytes dropped, one 0x00 put in front
\* exactly when the first byte kept has its high bit set. r and s that both
\* start with a high-bit byte give 72 bytes with both integers prefixed by
\* 0x00; all bytes 0x01 give 70 bytes.
C23_MinimalIntegers ==
    cryptoCall.op = "encodeSignatureToDER" =>
        LET der == cryptoCall.out
            r   == SubSeq(cryptoCall.data, 1, 32)
            s   == SubSeq(cryptoCall.data, 33, 64)
        IN  /\ MinimalInteger(DerR(der), r)
            /\ MinimalInteger(DerS(der), s)
            /\ (r[1] >= 128 /\ s[1] >= 128) =>
                   (Len(der) = 72 /\ DerR(der)[1] = 0 /\ DerS(der)[1] = 0)
            /\ cryptoCall.data = [i \in 1..64 |-> 1] => Len(der) = 70

\* r and s both start with a high-bit byte
C23_Witness ==
    /\ cryptoCall.op = "encodeSignatureToDER"
    /\ cryptoCall.data = Int256Of(0, 255) \o Int256Of(0, 128)
    /\ Len(cryptoCall.out) = 72
    /\ DerR(cryptoCall.out) = <<0>> \o Int256Of(0, 255)

\* the w bits of v, most significant first
BitsOf(v, w) == [i \in 1..w |-> (v \div (2 ^ (w - i))) % 2]

\* the bits of a byte string
ByteBits(data) ==
    [k \in 1..(8 * Len(data)) |-> BitsOf(data[((k - 1) \div 8) + 1], 8)[((k - 1) % 8) + 1]]

\* the RFC 4648 alphabet: A-Z, a-z, 0-9, + and /
Rfc4648Alphabet ==
    << "A", "B", "C", "D", "E", "F", "G", "H", "I", "J", "K", "L", "M", "N", "O", "P",
       "Q", "R", "S", "T", "U", "V", "W", "X", "Y", "Z", "a", "b", "c", "d", "e", "f",
       "g", "h", "i", "j", "k", "l", "m", "n", "o", "p", "q", "r", "s", "t", "u", "v",
       "w", "x", "y", "z", "0", "1", "2", "3", "4", "5", "6", "7", "8", "9", "+", "/" >>

Rfc4648Value(c) == (CHOOSE i \in 1..64 : Rfc4648Alphabet[i] = c) - 1

\* the number of '=' at the end of a string
Padding(out) == Cardinality({i \in 1..Len(out) : \A j \in i..Len(out) : out[j] = "="})

\* the bits carried by the first chars characters of out
CharBits(out, chars) ==
    [k \in 1..(6 * chars) |-> BitsOf(Rfc4648Value(out[((k - 1) \div 6) + 1]), 6)[((k - 1) % 6) + 1]]

\* C24: base64Encode() of n bytes returns 4 * ceil(n / 3) characters:
\* characters of the standard alphabet that carry the bits of the input in
\* order, the unused low bits of the last one zero, then (3 - n mod 3) mod 3
\* '=' characters.
C24_Base64IsRfc4648 ==
    cryptoCall.op = "base64Encode" =>
        LET data  == cryptoCall.data
            out   == cryptoCall.out
            n     == Len(data)
            chars == Len(out) - Padding(out)
        IN  /\ Len(out) = 4 * ((n + 2) \div 3)
            /\ Padding(out) = (3 - (n % 3)) % 3
            /\ \A i \in 1..chars : \E v \in 1..64 : Rfc4648Alphabet[v] = out[i]
            /\ 6 * chars >= 8 * n
            /\ 6 * chars < 8 * n + 6
            /\ \A k \in 1..(6 * chars) :
                   CharBits(out, chars)[k] = IF k <= 8 * n THEN ByteBits(data)[k] ELSE 0

\* a DER signature of 70 bytes: 23 full groups and a tail of one byte
C24_Witness ==
    /\ cryptoCall.op = "base64Encode"
    /\ Len(cryptoCall.data) = 70
    /\ Len(cryptoCall.out) = 96
    /\ Padding(cryptoCall.out) = 2

\* C25: base64Encode() of 0, 1 and 2 bytes returns 4 characters, ending in
\* '==', in '=' and in no '=' respectively.
C25_ShortInputsPadTwoOneNone ==
    (cryptoCall.op = "base64Encode" /\ Len(cryptoCall.data) <= 2) =>
        /\ Len(cryptoCall.out) = 4
        /\ Padding(cryptoCall.out) = 2 - Len(cryptoCall.data)

\* C25 as amended: base64Encode() of 1, 2 and 3 bytes returns 4 characters,
\* ending in '==', in '=' and in no '=' respectively; of 0 bytes it returns
\* the empty string.
C25_ShortInputsPadding ==
    (cryptoCall.op = "base64Encode" /\ Len(cryptoCall.data) <= 3) =>
        IF Len(cryptoCall.data) = 0
        THEN cryptoCall.out = <<>>
        ELSE /\ Len(cryptoCall.out) = 4
             /\ Padding(cryptoCall.out) = 3 - Len(cryptoCall.data)

\* one byte 0xFF: "/w=="
C25_Witness ==
    /\ cryptoCall.op = "base64Encode"
    /\ cryptoCall.data = <<255>>
    /\ cryptoCall.out = <<"/", "w", "=", "=">>

\* ---------------------------------------------------------------------------
\* Properties: degraded operation (SpecMsg)
\* ---------------------------------------------------------------------------
\* the "timestamp" member of a serialized document
TimestampOf(message) == message[2][2]

\* C26: with the module initialised for signing and WiFi up but the time not
\* synchronised, a sendHeartbeat() or sendAlert() made right after
\* initializeMessaging() is not refused for want of initialisation, and what
\* it sends carries the placeholder timestamp 1970-01-01T00:00:00Z.
C26_SendsWithoutTimeSync ==
    [][(/\ last.op = "initializeMessaging"
        /\ cryptoReady /\ wifiConnected /\ ~timeInitialized
        /\ last'.op \in {"sendHeartbeat", "sendAlert"}) =>
           /\ last'.path # "Messaging not initialized"
           /\ last'.path = "sent" =>
                  TimestampOf(last'.signedMessage) = EPOCH_PLACEHOLDER]_vars

\* ---------------------------------------------------------------------------
\* Properties: oscillating readings (SpecHw)
\* ---------------------------------------------------------------------------
\* C29: among valid readings, a poll taken in Detecting leaves the state
\* Detecting unless it and the CONSECUTIVE_READINGS_REQUIRED - 1 polls before
\* it were all taken in Detecting and farther than DETECTION_THRESHOLD_CM +
\* DETECTION_HYSTERESIS_CM; a poll taken in Idle leaves the state Idle unless it
\* and the polls before it were all taken in Idle and at most
\* DETECTION_THRESHOLD_CM away. So readings alternating in and out of range
\* never change the state.
C29_OscillationKeepsState ==
    LET n      == CONSECUTIVE_READINGS_REQUIRED
        far    == DETECTION_THRESHOLD_CM + DETECTION_HYSTERESIS_CM
        newest == trail[Len(trail)]
        recent == LastN(trail, n)
    IN  /\ (Len(trail) > 0 /\ Len(trail) < n) => ~newest.isActive
        /\ (Len(trail) >= n /\ \A e \in recent : e.distance >= 0) =>
               /\ (/\ newest.wasActive
                   /\ \E e \in recent : ~(e.wasActive /\ ValidBeyond(e, far))) =>
                      newest.isActive
               /\ (/\ ~newest.wasActive
                   /\ \E e \in recent :
                          ~(~e.wasActive /\ ValidWithin(e, DETECTION_THRESHOLD_CM))) =>
                      ~newest.isActive

\* the readings 30, 24, 30 cm in Detecting: still Detecting
C29_Witness ==
    /\ Polled
    /\ polls = CONSECUTIVE_READINGS_REQUIRED + 3
    /\ Len(trail) = 3
    /\ \A i \in 1..3 : trail[i].wasActive /\ trail[i].isActive
    /\ ValidBeyond(trail[1], DETECTION_THRESHOLD_CM + DETECTION_HYSTERESIS_CM)
    /\ ValidWithin(trail[2], DETECTION_THRESHOLD_CM)
    /\ ValidBeyond(trail[3], DETECTION_THRESHOLD_CM + DETECTION_HYSTERESIS_CM)
    /\ detectionActive
    /\ consecutiveOutOfRange = 1

\* ---------------------------------------------------------------------------
\* Properties: the detection episode (SpecEpisode)
\* ---------------------------------------------------------------------------
\* data.first_detected_at of a serialized alert
FirstDetectedAt(message) == message[4][2][5][2]

HeartbeatPosted ==
    /\ sends' = sends + 1
    /\ last'.op = "sendHeartbeat"
    /\ Len(last'.request.posts) = 1

\* C28: a heartbeat POST issued by a sendHeartbeat() that was called with
\* isHeartbeatDue() true comes at least HEARTBEAT_INTERVAL ms after the
\* heartbeat POST before it, whatever the outcome of that one and however
\* late it returned.
C28_HeartbeatPostsAnIntervalApart ==
    [][(HeartbeatPosted /\ isHeartbeatDue /\ heartbeatPost[1] >= 0) =>
          /\ heartbeatPost' = clock
          /\ AtLeast(Minus(heartbeatPost', heartbeatPost), HEARTBEAT_INTERVAL)]_vars

\* a second heartbeat, due, after a first that failed in the transport and
\* returned after the timeout
C28_Witness ==
    /\ last.op = "sendHeartbeat"
    /\ last.path = "sent"
    /\ sends = 2
    /\ Len(last.request.posts) = 1
    /\ heartbeatPost = Ms(2 * HEARTBEAT_INTERVAL + HTTP_TIMEOUT + showErrorPattern(10).elapsed)

\* ---------------------------------------------------------------------------
\* Properties: the two timers (SpecFrame)
\* ---------------------------------------------------------------------------
\* C31: the heartbeat and alert timers are independent: a step of
\* sendHeartbeat() or initializeMessaging() leaves lastAlertTime and every
\* other static of hardware.cpp as it was; a step of pollSensor(),
\* markAlertSent() or sendAlert() leaves lastHeartbeatTime as it was; and
\* isHeartbeatDue() answers the same before and after pollSensor() and
\* markAlertSent(), whatever they did to the detection state.
C31_TimersIndependent ==
    [][/\ last'.op \in {"sendHeartbeat", "initializeMessaging"} => UNCHANGED hwVars
       /\ last'.op \in {"pollSensor", "markAlertSent", "sendAlert"} =>
              UNCHANGED msgVars
       /\ last'.op \in {"pollSensor", "markAlertSent"} =>
              isHeartbeatDue' = isHeartbeatDue]_vars

\* the alert timer has just been marked during a detection while the heartbeat
\* stays due
C31_Witness ==
    /\ last.op = "markAlertSent"
    /\ detectionActive
    /\ messagingReady
    /\ lastAlertTime = millis
    /\ lastHeartbeatTime # lastAlertTime
    /\ isHeartbeatDue
    /\ ~isAlertDue

\* ---------------------------------------------------------------------------
\* Properties: every result of http.POST() (SpecHttp)
\* ---------------------------------------------------------------------------
\* C32: a send whose POST returned code shows error pattern 10 when code <= 0,
\* 3 when code = 400, 4 when code is 401 or 403, 5 when code >= 500, and 6 for
\* every other positive code outside 200..299 (1xx, 3xx, the other 4xx); it
\* returns true only for a code in 200..299 and false for every other code.
C32_EveryCodeClassified ==
    Posted =>
        LET code  == last.request.code
            shown == last.request.patterns
        IN  /\ code <= 0 => shown = <<showErrorPattern(10)>>
            /\ code = 400 => shown = <<showErrorPattern(3)>>
            /\ code \in {401, 403} => shown = <<showErrorPattern(4)>>
            /\ code >= 500 => shown = <<showErrorPattern(5)>>
            /\ (code > 0 /\ code < 500 /\ code \notin 200..299
                   /\ code \notin {400, 401, 403}) => shown = <<showErrorPattern(6)>>
            /\ last.ret => code \in 200..299
            /\ code \notin 200..299 => ~last.ret

\* a heartbeat answered with an informational status
C32_Witness ==
    /\ Posted
    /\ last.op = "sendHeartbeat"
    /\ last.request.code \in 100..199
    /\ ~last.ret
    /\ last.request.patterns = <<showErrorPattern(6)>>

\* C33: every call of sendHTTPRequest() shows exactly one pattern: the success
\* pattern if and only if it returns true, and otherwise one error pattern of
\* 3, 4, 5, 6 or 10 pulses.
C33_IndicatorDrivenOncePerRequest ==
    (last.op \in {"sendHeartbeat", "sendAlert"} /\ last.path = "sent") =>
        /\ Len(last.request.patterns) = 1
        /\ last.ret <=> last.request.patterns = <<showSuccessPattern>>
        /\ ~last.ret => ShownCodes \subseteq {3, 4, 5, 6, 10}

\* ---------------------------------------------------------------------------
\* Properties: the alert timer inside an episode (SpecHw)
\* ---------------------------------------------------------------------------
\* C34: while an object stays detected, once markAlertSent() has been called
\* isAlertDue() is true only when at least ALERT_INTERVAL ms have passed since
\* that call, so two due alerts of one episode, each followed by
\* markAlertSent(), are at least ALERT_INTERVAL ms apart.
C34_AlertsOfAnEpisodeAnIntervalApart ==
    (detectionActive /\ alertMark[1] >= 0 /\ isAlertDue) =>
        AtLeast(Minus(clock, alertMark), ALERT_INTERVAL)

\* the next alert of the episode falls due exactly ALERT_INTERVAL ms after the
\* mark
C34_Witness ==
    /\ detectionActive
    /\ alertMark[1] >= 0
    /\ last.op = "tick"
    /\ isAlertDue
    /\ Minus(clock, alertMark) = Ms(ALERT_INTERVAL)

\* ---------------------------------------------------------------------------
\* Properties: the counters of the state machine (SpecHw)
\* ---------------------------------------------------------------------------
\* C35: after every pollSensor(): in Idle consecutiveOutOfRange is 0 and
\* consecutiveValidReadings is below CONSECUTIVE_READINGS_REQUIRED;
\* consecutiveOutOfRange is below CONSECUTIVE_READINGS_REQUIRED in either
\* state; and a poll that changed the state leaves both counters at 0.
C35_CountersBounded ==
    Polled =>
        /\ ~detectionActive =>
               /\ consecutiveOutOfRange = 0
               /\ consecutiveValidReadings < CONSECUTIVE_READINGS_REQUIRED
        /\ consecutiveOutOfRange < CONSECUTIVE_READINGS_REQUIRED
        /\ last.transition # "none" =>
               /\ consecutiveValidReadings = 0
               /\ consecutiveOutOfRange = 0

\* the poll that left Detecting, after one that had entered it
C35_Witness ==
    /\ Polled
    /\ last.transition = "toIdle"
    /\ last.wasActive
    /\ ~detectionActive
    /\ polls >= 2 * CONSECUTIVE_READINGS_REQUIRED
    /\ consecutiveValidReadings = 0
    /\ consecutiveOutOfRange = 0

\* ---------------------------------------------------------------------------
\* Properties: the gate before signing (SpecHttp)
\* ---------------------------------------------------------------------------
\* C36: messagingReady holds only after an initializeMessaging() that found
\* the signer ready and the time initialised; a sendHeartbeat() or sendAlert()
\* called with messagingReady and WiFi connected goes on to sign its document,
\* and one called without either returns false at once: nothing is signed,
\* no request is made and no time passes.
C36_SendsGatedByReadinessAndWiFi ==
    [][/\ messagingReady' =>
              (cryptoReady' /\ timeInitialized' /\ heartbeatMark'[1] >= 0)
       /\ last'.op \in {"sendHeartbeat", "sendAlert"} =>
              IF messagingReady /\ wifiConnected
              THEN /\ last'.path \in {"sent", "Failed to sign message"}
                   /\ Len(last'.signedMessage) > 0
              ELSE /\ ~last'.ret
                   /\ last'.path = IF ~messagingReady THEN "Messaging not initialized"
                                                     ELSE "WiFi not connected"
                   /\ last'.signedMessage = <<>>
                   /\ last'.signature = <<>>
                   /\ last'.request = NoRequest
                   /\ clock' = clock]_vars

\* an alert given up because the access point had gone after set-up
C36_Witness ==
    /\ last.op = "sendAlert"
    /\ last.path = "WiFi not connected"
    /\ messagingReady
    /\ cryptoReady
    /\ timeInitialized
    /\ ~wifiConnected
    /\ ~last.ret
    /\ last.signedMessage = <<>>
    /\ last.request = NoRequest

\* ---------------------------------------------------------------------------
\* Properties: one event per press (SpecBtn)
\* ---------------------------------------------------------------------------
\* C37: a call of checkButtonPress() returns true only when it takes
\* buttonState from HIGH to LOW on a LOW reading, and buttonState goes back
\* to HIGH only in a call that reads HIGH; so between two calls that return
\* true the released level was read and committed, and a button held down
\* gives no second event.
C37_OneEventPerPress ==
    [][ButtonCall =>
          /\ last'.ret =>
                 /\ buttonState = "HIGH"
                 /\ buttonState' = "LOW"
                 /\ button'.reading = "LOW"
          /\ (buttonState = "LOW" /\ buttonState' = "HIGH") =>
                 /\ button'.reading = "HIGH"
                 /\ ~last'.ret]_vars

\* the second event, after a release and a second press
C37_Witness ==
    /\ last.op = "checkButtonPress"
    /\ last.ret
    /\ buttonState = "LOW"
    /\ button.presses = 2
    /\ button.prevPressRet
    /\ button.pressRet

\* ---------------------------------------------------------------------------
\* Properties: the minimum interval between events (SpecPress)
\* ---------------------------------------------------------------------------
\* C38: a call of checkButtonPress() that ignores a press as too soon leaves
\* lastPressTime as it was; and once a press has returned true, a later
\* debounced press returns true exactly when it is committed at least
\* MIN_PRESS_INTERVAL ms (and less than 2^32 ms) after that press, whatever
\* presses were ignored in between.
C38_WindowFromLastAcceptedPress ==
    [][ButtonCall =>
          /\ last'.path = "ignored" =>
                 /\ lastPressTime' = lastPressTime
                 /\ button'.acceptedAt = button.acceptedAt
          /\ (/\ last'.path \in {"pressed", "ignored"}
              /\ button.acceptedAt[1] >= 0
              /\ Minus(clock, button.acceptedAt)[1] < LIMB) =>
                 (last'.ret <=>
                      AtLeast(Minus(clock, button.acceptedAt), MIN_PRESS_INTERVAL))]_vars

\* the third press returns true less than MIN_PRESS_INTERVAL ms after the
\* second, which was ignored
C38_Witness ==
    /\ last.op = "checkButtonPress"
    /\ last.ret
    /\ button.presses = 3
    /\ ~button.prevPressRet
    /\ ~AtLeast(Minus(button.pressAt, button.prevPressAt), MIN_PRESS_INTERVAL)
    /\ lastPressTime = ULong(button.pressAt)

\* ---------------------------------------------------------------------------
\* Properties: the first press after boot (SpecBtn)
\* ---------------------------------------------------------------------------
\* C39: the first debounced press after boot returns true, however soon
\* after boot it is committed.
C39_FirstPressEmits ==
    button.presses = 1 => button.pressRet

\* ---------------------------------------------------------------------------
\* C40 (SpecWrap): the elapsed-time checks are right across a wrap of the
\* 32-bit millis() counter.  For a mark taken at clock t, with the counter
\* wrapped since and less than 2^32 ms of real time elapsed, isHeartbeatDue(),
\* isSensorPollDue() and (while an object is detected) isAlertDue() are true
\* exactly when the real elapsed time clock - t is at least the interval.
\* ---------------------------------------------------------------------------
\* the counter has wrapped since the mark, less than 2^ULONG_BITS ms ago
WrappedSince(mark) ==
    /\ mark[1] >= 0
    /\ clock[1] \div LIMB > mark[1] \div LIMB
    /\ Minus(clock, mark)[1] < LIMB

C40_DueChecksRightAcrossWrap ==
    /\ WrappedSince(heartbeatMark) =>
           (isHeartbeatDue <=> AtLeast(Minus(clock, heartbeatMark), HEARTBEAT_INTERVAL))
    /\ WrappedSince(pollMark) =>
           (isSensorPollDue <=> AtLeast(Minus(clock, pollMark), SENSOR_POLL_INTERVAL))
    /\ (detectionActive /\ WrappedSince(alertMark)) =>
           (isAlertDue <=> AtLeast(Minus(clock, alertMark), ALERT_INTERVAL))

\* all three marks were taken before the wrap, the counter has wrapped, and
\* the three checks are true, the heartbeat's at exactly its interval
C40_Witness ==
    /\ WrappedSince(heartbeatMark)
    /\ WrappedSince(pollMark)
    /\ WrappedSince(alertMark)
    /\ detectionActive
    /\ isHeartbeatDue
    /\ isSensorPollDue
    /\ isAlertDue
    /\ Minus(clock, heartbeatMark) = Ms(HEARTBEAT_INTERVAL)
    /\ AtLeast(ULong(heartbeatMark), HEARTBEAT_INTERVAL)
    /\ ~AtLeast(millis, HEARTBEAT_INTERVAL)

====
